---- MODULE Spec2Model ----
(***************************************************************************)
(* Model of the cruise-control grader: the rigorous, pattern-based and     *)
(* execution-based implementation graders (test-case generation, harness   *)
(* synthesis, subject run, result parsing, reconciliation and grading).    *)
(*                                                                         *)
(* Conventions                                                             *)
(*  - a Java Integer is a sequence: <<>> is null, <<v>> is the value v;    *)
(*  - an output line is the sequence of its ':'-separated fields, i.e.     *)
(*    exactly what Python's line.split(':') returns for it;                *)
(*  - money is in hundredths of a point (1.67 is 167).                     *)
(***************************************************************************)
EXTENDS Integers, Sequences, FiniteSets, TLC

VARIABLES grader, pc, subject, pattern_results, es_exists, cleanup_calls,
          stages, tc_index, output, proc, stray_left, test_results, analysis, result,
          test_analysis, log_calls, pending_patterns, config, grade, cruise_control_file, impl_content,
          impl_analysis

vars == <<grader, pc, subject, pattern_results, es_exists, cleanup_calls,
          stages, tc_index, output, proc, stray_left, test_results, analysis, result,
          test_analysis, log_calls, pending_patterns, config, grade, cruise_control_file,
                 impl_content, impl_analysis>>

-----------------------------------------------------------------------------
(* Bounds of the model *)

\* how many extraneous lines the subject may print to stdout in one run
MaxStray == 1

\* how many lines a captured output has at most when the parsers are driven directly
MaxLines == 4

\* how many times the lines of such an output are reordered before it is parsed
MaxShuffles == 1

-----------------------------------------------------------------------------
(* Requirement catalog and weights *)

ReqOrder == <<"R1", "R2", "R3", "R4", "R5", "R6">>

Reqs == {ReqOrder[i] : i \in 1..Len(ReqOrder)}

\* weights = {R1..R5: 1.67, R6: 1.65}, in hundredths
WeightR1to5 == 167

WeightR6 == 165

Weights == [r \in Reqs |-> IF r = "R6" THEN WeightR6 ELSE WeightR1to5]

\* min(grade, 10.0)
MaxGrade == 1000

\* satisfied = satisfaction_rate >= 80
SatisfactionThreshold == 80

Null == <<>>

Box(v) == <<v>>

-----------------------------------------------------------------------------
(* Generic helpers on sequences *)

RECURSIVE SeqSum(_)
SeqSum(s) == IF s = <<>> THEN 0 ELSE Head(s) + SeqSum(Tail(s))

\* the subsequence of s (in order) of the elements satisfying Test
RECURSIVE SelectSeqBy(_, _)
SelectSeqBy(s, keep) ==
  IF s = <<>> THEN <<>>
  ELSE (IF Head(s) \in keep THEN <<Head(s)>> ELSE <<>>) \o SelectSeqBy(Tail(s), keep)

Range(s) == {s[i] : i \in 1..Len(s)}

Abs(n) == IF n < 0 THEN 0 - n ELSE n

-----------------------------------------------------------------------------
(* Exception class names and Java's getSimpleName().contains(fragment) *)

\* the simple names the subject (or the JVM) may raise, as camel-case words
WordsOf ==
  [ IncorrectSpeedSetException       |-> <<"Incorrect", "Speed", "Set", "Exception">>,
    IncorrectSpeedException          |-> <<"Incorrect", "Speed", "Exception">>,
    SpeedSetAboveSpeedLimitException |-> <<"Speed", "Set", "Above", "Speed", "Limit", "Exception">>,
    AboveLimitException              |-> <<"Above", "Limit", "Exception">>,
    IllegalArgumentException         |-> <<"Illegal", "Argument", "Exception">>,
    NullPointerException             |-> <<"Null", "Pointer", "Exception">>,
    RuntimeException                 |-> <<"Runtime", "Exception">> ]

\* str.replace('Exception', '') on the word sequence
RemoveExceptionWord(words) == SelectSeq(words, LAMBDA w : w # "Exception")

\* String.contains at word granularity: frag is a contiguous run of words
ContainsWords(words, frag) ==
  \E i \in 0..(Len(words) - Len(frag)) :
     \A j \in 1..Len(frag) : words[i + j] = frag[j]

SimpleNameContains(name, frag) == ContainsWords(WordsOf[name], frag)

-----------------------------------------------------------------------------
(* The subject: a student's CruiseControl, seen as a black box.            *)
(* The graded contract is _define_requirements; a subject is described by  *)
(* how it deviates from it.                                                *)

NoThrow == "none"

LowChecks == {"le0", "lt0", "nocheck"}

LimitChecks == {"gt", "ge", "nocheck"}

StorePolicies == {"after_validation", "before_validation", "never"}

SubjectShape(is, il, ct, at, lc, le, mc, me, st) ==
  [ initSet |-> is, initLimit |-> il, ctorThrows |-> ct, alwaysThrows |-> at,
    lowCheck |-> lc, lowExc |-> le, limitCheck |-> mc, limitExc |-> me, store |-> st ]

\* the subject that implements R1..R6 exactly
CorrectSubject ==
  SubjectShape(Null, Null, NoThrow, NoThrow, "le0", "IncorrectSpeedSetException",
               "gt", "SpeedSetAboveSpeedLimitException", "after_validation")

NormalSubjects ==
  { SubjectShape(is, il, NoThrow, NoThrow, lc, le, mc, me, st) :
      is \in {Null, Box(0)}, il \in {Null, Box(0)},
      lc \in LowChecks, le \in {"IncorrectSpeedSetException", "IllegalArgumentException"},
      mc \in LimitChecks, me \in {"SpeedSetAboveSpeedLimitException", "IllegalArgumentException"},
      st \in StorePolicies }

\* subjects whose mutators throw on every input
ThrowingSubjects ==
  { [CorrectSubject EXCEPT !.alwaysThrows = e] :
      e \in {"IllegalArgumentException", "IncorrectSpeedSetException", "RuntimeException"} }

\* subjects whose constructor throws
CtorThrowingSubjects == { [CorrectSubject EXCEPT !.ctorThrows = "RuntimeException"] }

\* subjects that store a valid speed only when it is below 50 and otherwise return
\* normally without storing it
PartialStoreSubjects == { [CorrectSubject EXCEPT !.store = "below_50"] }

\* subjects that reject zero but accept and store negative speeds
ZeroOnlySubjects == { [CorrectSubject EXCEPT !.lowCheck = "eq0"] }

Subjects ==
  NormalSubjects \cup ThrowingSubjects \cup CtorThrowingSubjects \cup PartialStoreSubjects
    \cup ZeroOnlySubjects

\* new CruiseControl(speedometer)
NewCruiseControl(s) ==
  [ thrown |-> s.ctorThrows,
    cc     |-> [speedSet |-> s.initSet, speedLimit |-> s.initLimit] ]

\* cc.setSpeedLimit(v)
SetSpeedLimit(s, cc, v) ==
  IF s.alwaysThrows # NoThrow THEN [thrown |-> s.alwaysThrows, cc |-> cc]
  ELSE IF s.store = "never" THEN [thrown |-> NoThrow, cc |-> cc]
  ELSE [thrown |-> NoThrow, cc |-> [cc EXCEPT !.speedLimit = Box(v)]]

\* cc.setSpeedSet(v)
SetSpeedSet(s, cc, v) ==
  LET early == IF s.store = "before_validation" THEN [cc EXCEPT !.speedSet = Box(v)] ELSE cc
      low   == \/ s.lowCheck = "le0" /\ v <= 0
               \/ s.lowCheck = "lt0" /\ v < 0
               \/ s.lowCheck = "eq0" /\ v = 0
      above == /\ cc.speedLimit # Null
               /\ \/ s.limitCheck = "gt" /\ v > cc.speedLimit[1]
                  \/ s.limitCheck = "ge" /\ v >= cc.speedLimit[1]
  IN  IF s.alwaysThrows # NoThrow THEN [thrown |-> s.alwaysThrows, cc |-> cc]
      ELSE IF low THEN [thrown |-> s.lowExc, cc |-> early]
      ELSE IF above THEN [thrown |-> s.limitExc, cc |-> early]
      ELSE IF s.store = "never" \/ (s.store = "below_50" /\ v >= 50)
      THEN [thrown |-> NoThrow, cc |-> cc]
      ELSE [thrown |-> NoThrow, cc |-> [cc EXCEPT !.speedSet = Box(v)]]

\* a straight-line run of mutator calls <<method, argument>>, stopped by the first throw
RECURSIVE RunCalls(_, _, _)
RunCalls(s, cc, calls) ==
  IF calls = <<>> THEN [thrown |-> NoThrow, cc |-> cc]
  ELSE LET c == Head(calls)
           r == IF c[1] = "setSpeedLimit" THEN SetSpeedLimit(s, cc, c[2])
                ELSE SetSpeedSet(s, cc, c[2])
       IN  IF r.thrown # NoThrow THEN r ELSE RunCalls(s, r.cc, Tail(calls))

\* try { cc = new CruiseControl(..); calls.. }: the state and exception the try block ends with
RunTry(s, calls) ==
  LET ctor == NewCruiseControl(s)
  IN  IF ctor.thrown # NoThrow THEN ctor ELSE RunCalls(s, ctor.cc, calls)

-----------------------------------------------------------------------------
(* Test Case Generator: RigorousImplementationGrader._generate_test_cases  *)

\* one decimal digit as text
DigitText(d) ==
  CASE d = 0 -> "0" [] d = 1 -> "1" [] d = 2 -> "2" [] d = 3 -> "3" [] d = 4 -> "4"
    [] d = 5 -> "5" [] d = 6 -> "6" [] d = 7 -> "7" [] d = 8 -> "8" [] d = 9 -> "9"

\* Python's f"{n:04d}" for 0 <= n < 10000
Fmt04d(n) ==
  DigitText((n \div 1000) % 10) \o DigitText((n \div 100) % 10)
    \o DigitText((n \div 10) % 10) \o DigitText(n % 10)

TestCase(idPrefix, idNumber, category, requirement, preLimit, preSet, hasSeq, seq, input, behavior, value, exception) ==
  [ id |-> idPrefix \o idNumber, idPrefix |-> idPrefix, category |-> category,
    requirement |-> requirement, preSpeedLimit |-> preLimit, preSpeedSet |-> preSet,
    hasSequence |-> hasSeq, sequence |-> seq, inputSpeedSet |-> input,
    expected_behavior |-> behavior, expected_value |-> value, expected_exception |-> exception ]

R3Values == <<1, 50, 100, 1000>>

\* mutant of R4Values: the zero boundary is left out
R4ValuesNoZero == <<-100, -10, -1>>

R4Values == <<-100, -10, -1, 0>>

\* (speed_limit, speed_set)
R5BelowPairs == << <<100, 50>>, <<200, 150>>, <<100, 99>> >>

\* mutant of R6ExceedPairs: representative values only, no limit + 1
R6ExceedPairsNoBoundary == << <<100, 110>>, <<100, 150>>, <<50, 60>> >>

R6ExceedPairs == << <<100, 101>>, <<100, 150>>, <<50, 51>> >>

R1InitCase ==
  TestCase("R1_INIT_", "01", "equivalence_partition", "R1", Null, Null, FALSE, <<>>, Null,
           "success", Null, "")

R2InitCase ==
  TestCase("R2_INIT_", "01", "equivalence_partition", "R2", Null, Null, FALSE, <<>>, Null,
           "success", Null, "")

R3Case(value) ==
  TestCase("R3_VALID_", Fmt04d(value), "equivalence_partition", "R3", Null, Null, FALSE, <<>>,
           Box(value), "success", Box(value), "")

R4Case(value) ==
  TestCase("R4_INVALID_", Fmt04d(Abs(value)), "boundary_value", "R4", Null, Null, FALSE, <<>>,
           Box(value), "exception", Null, "IncorrectSpeedSetException")

R5BelowCase(pair) ==
  TestCase("R5_BELOW_LIMIT_", Fmt04d(pair[2]), "equivalence_partition", "R5", Box(pair[1]), Null,
           FALSE, <<>>, Box(pair[2]), "success", Box(pair[2]), "")

R5EqualCase ==
  TestCase("R5_EQUAL_LIMIT_", "0100", "boundary_value", "R5", Box(100), Null, FALSE, <<>>,
           Box(100), "success", Box(100), "")

R6Case(pair) ==
  TestCase("R6_EXCEED_LIMIT_", Fmt04d(pair[2]), "boundary_value", "R6", Box(pair[1]), Null,
           FALSE, <<>>, Box(pair[2]), "exception", Null, "SpeedSetAboveSpeedLimitException")

PropSequentialCase ==
  TestCase("PROP_SEQUENTIAL_", "01", "property_based", "R3,R5", Box(200), Null, TRUE,
           <<50, 75, 100>>, Null, "success", Box(100), "")

StateTransCase ==
  TestCase("STATE_TRANS_", "01", "state_transition", "R4", Null, Box(50), FALSE, <<>>,
           Box(-10), "exception", Null, "IncorrectSpeedSetException")

GenerateTestCases ==
  <<R1InitCase, R2InitCase>>
    \o [i \in 1..Len(R3Values) |-> R3Case(R3Values[i])]
    \o [i \in 1..Len(R4Values) |-> R4Case(R4Values[i])]
    \o [i \in 1..Len(R5BelowPairs) |-> R5BelowCase(R5BelowPairs[i])]
    \o <<R5EqualCase>>
    \o [i \in 1..Len(R6ExceedPairs) |-> R6Case(R6ExceedPairs[i])]
    \o <<PropSequentialCase, StateTransCase>>

\* tc.id.startswith('R1') / startswith('R2'): decided by the id's literal prefix
IdStartsWithR1(tc) == tc.idPrefix = "R1_INIT_"

IdStartsWithR2(tc) == tc.idPrefix = "R2_INIT_"

-----------------------------------------------------------------------------
(* Harness Synthesizer: RigorousImplementationGrader._generate_test_method *)
(* The value is what the generated Java block prints for subject s: a      *)
(* sequence of zero or one output lines.                                   *)

PassLine(tc) == <<"PASS", tc.requirement, tc.id>>

FailLine(tc, reason) == <<"FAIL", tc.requirement, tc.id>> \o reason

\* the catch (Throwable e) block
CatchOutput(tc, thrown) ==
  IF tc.expected_behavior = "exception"
  THEN IF SimpleNameContains(thrown, RemoveExceptionWord(WordsOf[tc.expected_exception]))
       THEN << PassLine(tc) >>
       ELSE << FailLine(tc, <<"WRONG_EXCEPTION", thrown>>) >>
  ELSE << FailLine(tc, <<"UNEXPECTED_EXCEPTION", thrown>>) >>

\* the calls emitted inside the try block after the constructor
TestMethodCalls(tc) ==
  (IF tc.preSpeedLimit # Null THEN << <<"setSpeedLimit", tc.preSpeedLimit[1]>> >> ELSE <<>>)
    \o (IF tc.preSpeedSet # Null THEN << <<"setSpeedSet", tc.preSpeedSet[1]>> >> ELSE <<>>)
    \o (IF tc.category = "property_based" /\ tc.hasSequence
        THEN [i \in 1..Len(tc.sequence) |-> <<"setSpeedSet", tc.sequence[i]>>]
        ELSE IF IdStartsWithR1(tc) \/ IdStartsWithR2(tc) THEN <<>>
        ELSE << <<"setSpeedSet", tc.inputSpeedSet[1]>> >>)

\* mutant of InitCheckOutput: the null comparison is inverted
InitCheckOutputInverted(tc, cc) ==
  LET got == IF IdStartsWithR1(tc) THEN cc.speedSet ELSE cc.speedLimit
  IN  IF got # Null THEN << PassLine(tc) >> ELSE <<>>

\* if (cc.getX() == null) { PASS }   -- there is no else branch
InitCheckOutput(tc, cc) ==
  LET got == IF IdStartsWithR1(tc) THEN cc.speedSet ELSE cc.speedLimit
  IN  IF got = Null THEN << PassLine(tc) >> ELSE <<>>

\* mutant of NormalReturnOutput: a normal return is always reported as PASS
NormalReturnOutputAlwaysPass(tc, cc) == << PassLine(tc) >>

\* what the try block prints when every call returned normally with state cc
NormalReturnOutput(tc, cc) ==
  IF tc.category = "property_based" /\ tc.hasSequence
  THEN \* if (cc.getSpeedSet() == expected): unboxing null raises NullPointerException
       IF cc.speedSet = Null THEN CatchOutput(tc, "NullPointerException")
       ELSE IF cc.speedSet = tc.expected_value THEN << PassLine(tc) >>
       ELSE <<>>
  ELSE IF tc.expected_behavior = "exception"
  THEN IF IdStartsWithR1(tc) \/ IdStartsWithR2(tc) THEN InitCheckOutput(tc, cc)
       ELSE << FailLine(tc, <<"NO_EXCEPTION">>) >>
  ELSE IF IdStartsWithR1(tc) \/ IdStartsWithR2(tc) THEN InitCheckOutput(tc, cc)
       ELSE \* if (cc.getSpeedSet() != null && cc.getSpeedSet() == expected) { PASS }
            IF cc.speedSet # Null /\ cc.speedSet = tc.expected_value
            THEN << PassLine(tc) >> ELSE <<>>

GenerateTestMethod(tc, s) ==
  LET r == RunTry(s, TestMethodCalls(tc))
  IN  IF r.thrown # NoThrow THEN CatchOutput(tc, r.thrown)
      ELSE NormalReturnOutput(tc, r.cc)

-----------------------------------------------------------------------------
(* Probe blocks of the single-probe harnesses (pattern-based and fixed).   *)
(* A block is try { ctor; calls; check } catch (Throwable e) { ... }.      *)

Probe(req, calls, kind, getter, expected, variants, elseReason, noExcReason, wrongTag, excTag, printsPass) ==
  [ req |-> req, calls |-> calls, kind |-> kind, getter |-> getter, expected |-> expected,
    variants |-> variants, elseReason |-> elseReason, noExcReason |-> noExcReason,
    wrongTag |-> wrongTag, excTag |-> excTag, printsPass |-> printsPass ]

\* what the compiled block prints for subject s: zero or one line
ProbeOutput(b, s) ==
  LET r   == RunTry(s, b.calls)
      got == IF b.getter = "getSpeedSet()" THEN r.cc.speedSet ELSE r.cc.speedLimit
  IN  IF r.thrown # NoThrow
      THEN IF b.kind = "exception"
           THEN IF \E f \in b.variants : SimpleNameContains(r.thrown, f)
                THEN (IF b.printsPass THEN << <<"PASS", b.req>> >> ELSE <<>>)
                ELSE << <<"FAIL", b.req, b.wrongTag, r.thrown>> >>
           ELSE << <<"FAIL", b.req, b.excTag, r.thrown>> >>
      ELSE IF b.kind = "exception" THEN << <<"FAIL", b.req>> \o b.noExcReason >>
      ELSE IF \/ b.kind = "null" /\ got = Null
              \/ b.kind = "equals" /\ got # Null /\ got = Box(b.expected)
           THEN << <<"PASS", b.req>> >>
           ELSE << <<"FAIL", b.req>> \o b.elseReason >>

\* ExecutionBasedGrader.create_test_file: the seven fixed blocks R1, R2, R3, R4, R4b, R5, R6
FixedHarness ==
  << Probe("R1", <<>>, "null", "getSpeedSet()", 0, {}, <<"NOT_NULL">>, <<>>, "", "EXCEPTION", TRUE),
     Probe("R2", <<>>, "null", "getSpeedLimit()", 0, {}, <<"NOT_NULL">>, <<>>, "", "EXCEPTION", TRUE),
     Probe("R3", << <<"setSpeedSet", 50>> >>, "equals", "getSpeedSet()", 50, {}, <<"NOT_SET">>,
           <<>>, "", "EXCEPTION", TRUE),
     Probe("R4", << <<"setSpeedSet", 0>> >>, "exception", "getSpeedSet()", 0,
           { <<"Incorrect", "Speed">> }, <<>>, <<"NO_EXCEPTION">>, "WRONG_EXCEPTION", "", TRUE),
     Probe("R4", << <<"setSpeedSet", -10>> >>, "exception", "getSpeedSet()", 0,
           { <<"Incorrect", "Speed">> }, <<>>, <<"NO_EXCEPTION_NEGATIVE">>,
           "WRONG_EXCEPTION_NEGATIVE", "", FALSE),
     Probe("R5", << <<"setSpeedLimit", 100>>, <<"setSpeedSet", 80>> >>, "equals", "getSpeedSet()",
           80, {}, <<"NOT_SET">>, <<>>, "", "EXCEPTION", TRUE),
     Probe("R6", << <<"setSpeedLimit", 80>>, <<"setSpeedSet", 100>> >>, "exception",
           "getSpeedSet()", 0,
           { <<"Speed", "Set", "Above", "Speed", "Limit">>, <<"Above", "Limit">> }, <<>>,
           <<"NO_EXCEPTION">>, "WRONG_EXCEPTION", "", TRUE) >>

\* the test_patterns of implementation_patterns.yml, one entry per requirement
TestPattern(setup, expected_exception, variants, test_values, method_call, check_method, expected_result) ==
  [ setup |-> setup, expected_exception |-> expected_exception, exception_variants |-> variants,
    test_values |-> test_values, method_call |-> method_call, check_method |-> check_method,
    expected_result |-> expected_result ]

TestPatterns ==
  [ R1 |-> TestPattern(<<>>, "", {}, <<>>, "", "getSpeedSet()", "null"),
    R2 |-> TestPattern(<<>>, "", {}, <<>>, "", "getSpeedLimit()", "null"),
    R3 |-> TestPattern(<<>>, "", {}, <<50>>, "setSpeedSet", "getSpeedSet()", "equals_input"),
    R4 |-> TestPattern(<<>>, "IncorrectSpeedSetException",
                       { <<"Incorrect", "Speed", "Set">>, <<"Incorrect", "Speed">> },
                       <<0>>, "setSpeedSet", "", ""),
    R5 |-> TestPattern(<< <<"setSpeedLimit", 100>> >>, "", {}, <<80>>, "setSpeedSet",
                       "getSpeedSet()", "equals_input"),
    R6 |-> TestPattern(<< <<"setSpeedLimit", 80>> >>, "SpeedSetAboveSpeedLimitException",
                       { <<"Speed", "Set", "Above", "Speed", "Limit">>, <<"Above", "Limit">> },
                       <<100>>, "setSpeedSet", "", "") ]

\* PatternBasedGrader.generate_test_code: the block emitted for requirement req from p
GenerateTestCode(req, p) ==
  IF p.expected_exception # ""
  THEN Probe(req, p.setup \o << <<p.method_call, p.test_values[1]>> >>, "exception",
             "getSpeedSet()", 0, p.exception_variants, <<>>, <<"NO_EXCEPTION">>,
             "WRONG_EXCEPTION", "", TRUE)
  ELSE IF p.test_values # <<>>
  THEN Probe(req,
             p.setup \o (IF p.method_call # "" THEN << <<p.method_call, p.test_values[1]>> >>
                         ELSE <<>>),
             IF p.expected_result = "equals_input" THEN "equals" ELSE "null",
             p.check_method, p.test_values[1], {}, <<"NOT_CORRECT">>, <<>>, "", "EXCEPTION", TRUE)
  ELSE Probe(req, p.setup, "null", p.check_method, 0, {}, <<"NOT_CORRECT">>, <<>>, "",
             "EXCEPTION", TRUE)

\* create_test_file_from_patterns: one block per requirement, in order
PatternHarness == [i \in 1..Len(ReqOrder) |-> GenerateTestCode(ReqOrder[i], TestPatterns[ReqOrder[i]])]

-----------------------------------------------------------------------------
(* The three graders *)

Graders == {"rigorous", "pattern", "exec"}

\* number of test blocks between TESTING_START and TESTING_END
HarnessLen(g) ==
  IF g = "rigorous" THEN Len(GenerateTestCases)
  ELSE IF g = "pattern" THEN Len(PatternHarness)
  ELSE Len(FixedHarness)

\* the lines block i of grader g's harness prints for subject s
BlockOutput(g, i, s) ==
  IF g = "rigorous" THEN GenerateTestMethod(GenerateTestCases[i], s)
  ELSE IF g = "pattern" THEN ProbeOutput(PatternHarness[i], s)
  ELSE ProbeOutput(FixedHarness[i], s)

-----------------------------------------------------------------------------
(* Result Interpreter: the parsing loops of the three run_tests            *)

\* line.startswith('PASS:') / line.startswith('FAIL:') on the split line
StartsWithTag(line, tag) == Len(line) >= 2 /\ line[1] = tag

\* str.strip() of a requirement field
Strip(t) == IF t = " R1" THEN "R1" ELSE t

\* rigorous: results_by_requirement[req], the records of the lines naming req
TestResult(line) ==
  [ status  |-> line[1],
    test_id |-> IF Len(line) > 2 THEN line[3] ELSE "",
    reason  |-> IF Len(line) > 3 THEN SubSeq(line, 4, Len(line)) ELSE <<>> ]

RECURSIVE ResultsFor(_, _)
ResultsFor(lines, req) ==
  IF lines = <<>> THEN <<>>
  ELSE LET l == Head(lines)
       IN  (IF (StartsWithTag(l, "PASS") \/ StartsWithTag(l, "FAIL")) /\ l[2] = req
            THEN << TestResult(l) >> ELSE <<>>) \o ResultsFor(Tail(lines), req)

ParseRigorous(lines) == [r \in Reqs |-> ResultsFor(lines, r)]

\* mutant of PassedList: the loop stops at the first FAIL line
RECURSIVE PassedListUntilFail(_)
PassedListUntilFail(lines) ==
  IF lines = <<>> \/ StartsWithTag(Head(lines), "FAIL") THEN <<>>
  ELSE (IF StartsWithTag(Head(lines), "PASS") THEN << Head(lines)[2] >> ELSE <<>>)
         \o PassedListUntilFail(Tail(lines))

\* pattern: passed.append(req) for every PASS line
RECURSIVE PassedList(_)
PassedList(lines) ==
  IF lines = <<>> THEN <<>>
  ELSE (IF StartsWithTag(Head(lines), "PASS") THEN << Head(lines)[2] >> ELSE <<>>)
         \o PassedList(Tail(lines))

\* exec: strip, and append only if not yet in passed_tests
RECURSIVE PassedDedup(_, _)
PassedDedup(lines, acc) ==
  IF lines = <<>> THEN acc
  ELSE LET l == Head(lines)
       IN  IF StartsWithTag(l, "PASS") /\ Strip(l[2]) \notin Range(acc)
           THEN PassedDedup(Tail(lines), Append(acc, Strip(l[2])))
           ELSE PassedDedup(Tail(lines), acc)

\* failed.append({'requirement': req, 'reason': ':'.join(parts[2:])})
RECURSIVE FailedList(_, _)
FailedList(lines, g) ==
  IF lines = <<>> THEN <<>>
  ELSE LET l == Head(lines)
       IN  (IF StartsWithTag(l, "FAIL")
            THEN << [ requirement |-> IF g = "exec" THEN Strip(l[2]) ELSE l[2],
                      reason |-> SubSeq(l, 3, Len(l)) ] >>
            ELSE <<>>) \o FailedList(Tail(lines), g)

\* the dict run_tests returns with True
ParseOutput(g, lines) ==
  IF g = "rigorous"
  THEN [ success |-> TRUE, results_by_requirement |-> ParseRigorous(lines) ]
  ELSE [ success |-> TRUE,
         passed  |-> IF g = "exec" THEN PassedDedup(lines, <<>>) ELSE PassedList(lines),
         failed  |-> FailedList(lines, g) ]

RunFailure(err) == [ success |-> FALSE, error |-> err ]

-----------------------------------------------------------------------------
(* Reconciliation and grading *)

CountPass(results) == Len(SelectSeq(results, LAMBDA r : r.status = "PASS"))

\* mutant of MeetsThreshold: the comparison is strict, as the comment above it says
MeetsThresholdStrict(passed, total) ==
  total > 0 /\ passed * 100 > SatisfactionThreshold * total

\* satisfaction_rate >= 80, the rate being passed / total * 100 (0 when total is 0)
MeetsThreshold(passed, total) ==
  total > 0 /\ passed * 100 >= SatisfactionThreshold * total

\* RigorousImplementationGrader.analyze_results, one requirement.  The rate is kept
\* exact, as the fraction rate_num / rate_den.
AnalyzeRequirement(results) ==
  LET total  == Len(results)
      passed == CountPass(results)
  IN  [ satisfied    |-> MeetsThreshold(passed, total),
        total_tests  |-> total,
        passed_tests |-> passed,
        failed_tests |-> total - passed,
        rate_num     |-> IF total > 0 THEN passed * 100 ELSE 0,
        rate_den     |-> IF total > 0 THEN total ELSE 1 ]

AnalyzeResults(tr) == [r \in Reqs |-> AnalyzeRequirement(tr.results_by_requirement[r])]

\* [req for req in ['R1'..'R6'] if req in keep], in catalog order
InOrder(keep) == SelectSeqBy(ReqOrder, keep)

\* round(len / 6 * 100, 2), in hundredths of a percent
SatisfactionPercentage(n) == (n * 20000 + Len(ReqOrder)) \div (2 * Len(ReqOrder))

\* mutant of GradeOf: every requirement weighs 1.65
GradeOfFlatWeights(satisfied) ==
  IF Len(satisfied) * WeightR6 > MaxGrade THEN MaxGrade ELSE Len(satisfied) * WeightR6

\* grade = min(sum(weights), 10.0), in hundredths
GradeOf(satisfied) ==
  LET total == SeqSum([i \in 1..Len(satisfied) |-> Weights[satisfied[i]]])
  IN  IF total > MaxGrade THEN MaxGrade ELSE total

\* DualGradingSystem.calculate_grade: min(round(sum(WEIGHTS.get(req, 0)), 2), 10.0)
DualCalculateGrade(requirements) ==
  LET total == SeqSum([i \in 1..Len(requirements) |->
                         IF requirements[i] \in Reqs THEN Weights[requirements[i]] ELSE 0])
  IN  IF total > MaxGrade THEN MaxGrade ELSE total

\* the requirement ids a configuration may weigh: R1..R19
ConfigReqs == {"R1", "R2", "R3", "R4", "R5", "R6", "R7", "R8", "R9", "R10", "R11", "R12", "R13",
               "R14", "R15", "R16", "R17", "R18", "R19"}

\* {f'R{i}': 5.26 for i in range(1, 20)}, in hundredths
DefaultWeight == 526

\* GradingSystem.get_default_config: max_grade 10.0, R1..R19 at 5.26 each, no bonus
DefaultConfig ==
  [ max_grade |-> MaxGrade, requirement_weights |-> [r \in ConfigReqs |-> DefaultWeight],
    bonus |-> 0 ]

\* a config.yaml for the six active requirements, with a full-coverage bonus of b
SixConfig(b) == [ max_grade |-> MaxGrade, requirement_weights |-> Weights, bonus |-> b ]

\* bonus.all_requirements_covered of such a file: half a point
BonusHalfPoint == 50

Configs == {DefaultConfig, SixConfig(0), SixConfig(BonusHalfPoint)}

\* sum(weights.values()) resp. the sum over a list of ids, weights.get(req, 0)
RECURSIVE WeightSum(_, _)
WeightSum(weights, reqs) ==
  IF reqs = <<>> THEN 0
  ELSE (IF Head(reqs) \in DOMAIN weights THEN weights[Head(reqs)] ELSE 0)
         + WeightSum(weights, Tail(reqs))

RECURSIVE SetWeightSum(_, _)
SetWeightSum(weights, keys) ==
  IF keys = {} THEN 0
  ELSE LET k == CHOOSE x \in keys : TRUE
       IN  weights[k] + SetWeightSum(weights, keys \ {k})

\* round(a / b, 2) of a quotient of hundredths, to the nearest hundredth
RoundDiv(a, b) == (2 * a + b) \div (2 * b)

\* GradingSystem.calculate_grade, in hundredths
CalculateGrade(cfg, an) ==
  IF ~an.success THEN 0
  ELSE LET weights      == cfg.requirement_weights
           total_weight == SetWeightSum(weights, DOMAIN weights)
           requirements == an.requirements_satisfied
           earned       == WeightSum(weights, requirements)
           scaled       == RoundDiv(earned * cfg.max_grade, total_weight)
       IN  IF Len(requirements) = an.total_requirements
           THEN (IF scaled + cfg.bonus > cfg.max_grade THEN cfg.max_grade ELSE scaled + cfg.bonus)
           ELSE scaled

\* no grade computed yet
NoGrade == <<>>

\* mutant of ErrorResult: the early return reports the static pattern verdicts
ErrorResultStaticFallback(g, err) ==
  [ success |-> FALSE, error |-> err, requirements_satisfied |-> InOrder(pattern_results),
    requirements_missing |-> InOrder(Reqs \ pattern_results),
    total_requirements |-> Len(ReqOrder), requirements_found |-> Cardinality(pattern_results),
    satisfaction_percentage |-> 0, grade |-> 0 ]

\* the dict every early return builds (rigorous: _error_result, with a grade)
ErrorResult(g, err) ==
  IF g = "rigorous"
  THEN [ success |-> FALSE, error |-> err, requirements_satisfied |-> <<>>,
         requirements_missing |-> ReqOrder, total_requirements |-> Len(ReqOrder),
         requirements_found |-> 0, satisfaction_percentage |-> 0, grade |-> 0 ]
  ELSE [ success |-> FALSE, error |-> err, requirements_satisfied |-> <<>>,
         requirements_missing |-> ReqOrder, total_requirements |-> Len(ReqOrder),
         requirements_found |-> 0, satisfaction_percentage |-> 0 ]

\* the requirements the grader reports satisfied after a successful run
\* the arguments of one log_unmatched_pattern call
LogCall(req, execution_passed, pattern_matched) ==
  [ requirement |-> req, execution_passed |-> execution_passed, pattern_matched |-> pattern_matched ]

\* mutant of LogCalls: every requirement that passed execution is logged
LogCallsEveryPass(passed, matched) ==
  [ i \in 1..Len(InOrder(Reqs \cap Range(passed))) |->
      LogCall(InOrder(Reqs \cap Range(passed))[i], TRUE,
              InOrder(Reqs \cap Range(passed))[i] \in matched) ]

\* the log_unmatched_pattern calls of the combination loop, in R1..R6 order:
\* if execution_passed: ...; if not pattern_matched: self.log_unmatched_pattern(...)
LogCalls(passed, matched) ==
  [ i \in 1..Len(InOrder((Reqs \cap Range(passed)) \ matched)) |->
      LogCall(InOrder((Reqs \cap Range(passed)) \ matched)[i], TRUE, FALSE) ]

\* log_unmatched_pattern: adds a NEEDS_MANUAL_REVIEW entry keyed <req>_candidate_<n>
\* to the pending file; a failure to read or write the file is swallowed
LogUnmatchedPattern(pending, call, fileOk) ==
  IF call.execution_passed /\ ~call.pattern_matched /\ fileOk
  THEN Append(pending, [ entry_id |-> <<call.requirement, "candidate", Len(pending) + 1>>,
                         requirement |-> call.requirement,
                         execution_result |-> "PASSED",
                         status |-> "NEEDS_MANUAL_REVIEW" ])
  ELSE pending

RECURSIVE LogAll(_, _, _)
LogAll(calls, pending, fileOk) ==
  IF calls = <<>> THEN pending
  ELSE LogAll(Tail(calls), LogUnmatchedPattern(pending, Head(calls), fileOk), fileOk)

SatisfiedRequirements(g, tr) ==
  IF g = "rigorous" THEN InOrder({r \in Reqs : AnalyzeResults(tr)[r].satisfied})
  ELSE IF g = "pattern" THEN InOrder({r \in Reqs : r \in Range(tr.passed)})
  ELSE tr.passed

SuccessResult(g, tr) ==
  LET sat     == SatisfiedRequirements(g, tr)
      missing == InOrder({r \in Reqs : r \notin Range(sat)})
  IN  IF g = "rigorous"
      THEN [ success |-> TRUE, requirements_satisfied |-> sat, requirements_missing |-> missing,
             total_requirements |-> Len(ReqOrder), requirements_found |-> Len(sat),
             satisfaction_percentage |-> SatisfactionPercentage(Len(sat)),
             grade |-> GradeOf(sat), total_test_cases |-> Len(GenerateTestCases) ]
      ELSE [ success |-> TRUE, requirements_satisfied |-> sat, requirements_missing |-> missing,
             total_requirements |-> Len(ReqOrder), requirements_found |-> Len(sat),
             satisfaction_percentage |-> SatisfactionPercentage(Len(sat)) ]

-----------------------------------------------------------------------------
(* Environment: what the external collaborators may answer *)

\* stderr texts of a failing javac
StderrTexts == {"CruiseControl.java:7: error: ';' expected", ""}

\* subprocess.run(['javac', ...], timeout=30)
CompileOutcomes ==
  {[kind |-> "exit0"], [kind |-> "timeout"], [kind |-> "oserror"]}
    \cup {[kind |-> "nonzero", stderr |-> t] : t \in StderrTexts}

\* what the static checkers may report: the requirements whose pattern check is satisfied
PatternOutcomes == { {}, {"R1", "R3", "R5"}, {"R2", "R4", "R6"}, Reqs }

\* lines a subject may write to stdout by itself
StrayLines ==
  { <<"PASS", "R3">>, <<"PASS", "R4">>, <<"PASS", "R9">>, <<"FAIL", "R1", "STRAY">>, <<"debug">> }

\* str(e) of subprocess.TimeoutExpired for the javac runs (timeout=30)
TimeoutText == "Command 'javac' timed out after 30 seconds"

\* str(e) of subprocess.TimeoutExpired for the java run (timeout=10)
RunTimeoutText == "Command 'java' timed out after 10 seconds"

OsErrorText == "[Errno 2] No such file or directory"

\* mutant of CompileMessage: the diagnostic of javac is dropped
CompileMessageNoStderr(g, o) == <<"Compilation failed">>

\* compile_code's message for a failed subject build
CompileMessage(g, o) ==
  IF o.kind = "nonzero" THEN <<"Compilation failed:\n", o.stderr>>
  ELSE IF o.kind = "timeout" /\ g # "rigorous" THEN <<"Compilation timeout (>30s)">>
  ELSE <<"Compilation error: ", IF o.kind = "timeout" THEN TimeoutText ELSE OsErrorText>>

\* run_tests' error for a failed harness build
HarnessBuildError(g, o) ==
  IF o.kind = "nonzero" THEN <<"Test compilation failed: ", o.stderr>>
  ELSE IF o.kind = "timeout" /\ g # "rigorous" THEN <<"Test execution timeout">>
  ELSE <<"Test execution error: ", IF o.kind = "timeout" THEN TimeoutText ELSE OsErrorText>>

\* run_tests' error when the harness run exceeds timeout=10
RunTimeoutError(g) ==
  IF g = "rigorous" THEN <<"Test execution error: ", RunTimeoutText>>
  ELSE <<"Test execution timeout">>

-----------------------------------------------------------------------------
(* Test analysis: PatternBasedTestAnalyzer and HolisticCoverageAnalyzer.    *)
(* A test method is described by what the analyzers' text searches find in  *)
(* it; an implementation file by which of the mapped code lines it holds.   *)

\* annotation "plain" is `@Test`, "expected" is `@Test(expected = <exception>.class)`;
\* limits and sets are the literal arguments of setSpeedLimit(..) and setSpeedSet(..);
\* limitComment: a `//` comment naming the limit; assertThrows: the class named in an
\* assertThrows(..) call or "none"; checksValue: assertEquals(.., cc.getSpeedSet());
\* initPatterns: the requirements among R1, R2 whose assertion patterns match the body
TestMethod(annotation, limits, sets, limitComment, assertThrows, checksValue, initPatterns) ==
  [ annotation |-> annotation, limits |-> limits, sets |-> sets, limitComment |-> limitComment,
    assertThrows |-> assertThrows, checksValue |-> checksValue, initPatterns |-> initPatterns ]

CallPairs ==
  { <<<<>>, <<>>>>, <<<<>>, <<50>>>>, <<<<>>, <<0>>>>, <<<<>>, <<-10>>>>,
    <<<<100>>, <<150>>>>, <<<<100>>, <<100>>>>, <<<<100>>, <<50>>>>, <<<<100>>, <<50, 150>>>> }

TestMethods ==
  { TestMethod(a, cp[1], cp[2], lc, at, cv, ip) :
      a \in {"plain", "expected"}, cp \in CallPairs, lc \in BOOLEAN,
      at \in {"none", "SpeedSetAboveSpeedLimitException", "IncorrectSpeedSetException"},
      cv \in BOOLEAN, ip \in {{}, {"R1", "R2"}} }

\* a test file is the sequence of its test methods
TestFiles == { <<m>> : m \in TestMethods }

\* the code lines of requirement_code_map
ImplLines ==
  { "this.speedSet = null", "this.speedLimit = null", "this.speedSet = speedSet",
    "throw new IncorrectSpeedSetException", "currentSpeedLimit != null",
    "speedSet > currentSpeedLimit", "throw new SpeedSetAboveSpeedLimitException" }

\* an implementation file, by the mapped lines its normalized text contains
ImplFiles == SUBSET ImplLines

\* texts the analyzers look for in a method body
BodyHasAssertThrows(m) == m.assertThrows # "none"

BodyNamesAboveLimit(m) == m.assertThrows = "SpeedSetAboveSpeedLimitException"

BodyNamesIncorrectSpeed(m) == m.assertThrows = "IncorrectSpeedSetException"

BodyHasGetSpeedSet(m) == m.checksValue \/ "R1" \in m.initPatterns

\* parse_test_methods: the regex wants white space right after `@Test`
ParseTestMethods(file) == SelectSeqBy(file, {m \in Range(file) : m.annotation = "plain"})

VerifyR5Logic(m) ==
  /\ m.limits # <<>> /\ m.sets # <<>>
  /\ m.limitComment
  /\ BodyHasGetSpeedSet(m)
  /\ \E i \in 1..Len(m.limits), j \in 1..Len(m.sets) : m.sets[j] <= m.limits[i]

VerifyR3Logic(m) ==
  /\ \E j \in 1..Len(m.sets) : m.sets[j] > 0
  /\ BodyHasGetSpeedSet(m)

VerifyR4Logic(m) ==
  /\ BodyHasAssertThrows(m) \/ BodyNamesIncorrectSpeed(m)
  /\ \E j \in 1..Len(m.sets) : m.sets[j] <= 0

VerifyR6Logic(m) ==
  /\ BodyHasAssertThrows(m) /\ BodyNamesAboveLimit(m)
  /\ m.limits # <<>> /\ m.sets # <<>>
  /\ \E i \in 1..Len(m.limits), j \in 1..Len(m.sets) : m.sets[j] > m.limits[i]

\* check_r1_test .. check_r6_test: is some parsed method a match for req
CheckRequirementTest(req, methods) ==
  \E i \in 1..Len(methods) :
    LET m == methods[i]
    IN  IF req \in {"R1", "R2"} THEN req \in m.initPatterns
        ELSE IF req = "R3" THEN VerifyR3Logic(m)
        ELSE IF req = "R4" THEN VerifyR4Logic(m)
        ELSE IF req = "R5" THEN VerifyR5Logic(m)
        ELSE VerifyR6Logic(m)

\* _analyze_with_patterns: the requirements with 'tested' True
AnalyzeWithPatterns(file) == {r \in Reqs : CheckRequirementTest(r, ParseTestMethods(file))}

\* requirement_code_map
RequirementCodeLines(req) ==
  IF req = "R1" THEN {"this.speedSet = null"}
  ELSE IF req = "R2" THEN {"this.speedLimit = null"}
  ELSE IF req = "R3" THEN {"this.speedSet = speedSet"}
  ELSE IF req = "R4" THEN {"throw new IncorrectSpeedSetException"}
  ELSE IF req = "R5"
  THEN {"currentSpeedLimit != null", "speedSet > currentSpeedLimit", "this.speedSet = speedSet"}
  ELSE {"throw new SpeedSetAboveSpeedLimitException"}

\* _check_methods_called: every test method constructs the subject, so `CruiseControl(`
\* is always in the file; `setSpeedSet(` is there when some method calls it
CheckMethodsCalled(req, file) ==
  IF req \in {"R1", "R2"} THEN file # <<>>
  ELSE \E i \in 1..Len(file) : file[i].sets # <<>>

CheckImplementationHasCode(req, impl) == RequirementCodeLines(req) \cap impl # {}

\* the text of one method as cut out by re.split('@Test'): the annotation's argument is in it
ChunkNamesAboveLimit(m) == BodyNamesAboveLimit(m) \/ m.annotation = "expected"

ChunkHasAssert(m) == BodyHasAssertThrows(m) \/ m.checksValue \/ m.initPatterns # {}

\* _check_code_paths_exercised
CheckCodePathsExercised(req, file) ==
  IF req = "R5"
  THEN \E k \in 1..Len(file) :
         LET m == file[k]
         IN  /\ ~ChunkNamesAboveLimit(m)
             /\ ChunkHasAssert(m) \/ BodyHasGetSpeedSet(m)
             /\ \E i \in 1..Len(m.limits), j \in 1..Len(m.sets) :
                   m.limits[i] >= 0 /\ m.sets[j] >= 0 /\ m.sets[j] <= m.limits[i]
  ELSE IF req = "R6"
  THEN /\ \E k \in 1..Len(file) : file[k].limits # <<>>
       /\ \E k \in 1..Len(file) : file[k].sets # <<>>
       /\ \E k \in 1..Len(file) : ChunkNamesAboveLimit(file[k]) \/ BodyHasAssertThrows(file[k])
  ELSE IF req = "R4"
  THEN /\ \E k \in 1..Len(file) : \E j \in 1..Len(file[k].sets) : file[k].sets[j] <= 0
       /\ \E k \in 1..Len(file) : BodyNamesIncorrectSpeed(file[k]) \/ BodyHasAssertThrows(file[k])
  ELSE TRUE

\* analyze_requirement_coverage: covered and confidence (in hundredths)
AnalyzeRequirementCoverage(req, file, impl) ==
  LET methods_tested  == CheckMethodsCalled(req, file)
      impl_has_code   == CheckImplementationHasCode(req, impl)
      paths_exercised == CheckCodePathsExercised(req, file)
  IN  IF methods_tested /\ impl_has_code /\ paths_exercised
      THEN [covered |-> TRUE, confidence |-> 90]
      ELSE IF methods_tested /\ impl_has_code
      THEN [covered |-> TRUE, confidence |-> 70]
      ELSE [covered |-> FALSE, confidence |-> 0]

\* generate_coverage_report
GenerateCoverageReport(file, impl) ==
  [r \in Reqs |-> AnalyzeRequirementCoverage(r, file, impl)]

\* _analyze_holistic_coverage returns {} when no implementation file is found
NoHolisticResults == [r \in Reqs |-> [covered |-> FALSE, confidence |-> 0]]

\* _combine_results and the result of analyze
CombineResults(pattern_tested, holistic) ==
  LET covered == InOrder({r \in Reqs : r \in pattern_tested \/ holistic[r].covered})
  IN  [ success |-> TRUE, requirements_covered |-> covered,
        requirements_missing |-> InOrder({r \in Reqs : r \notin Range(covered)}),
        requirements_found |-> Len(covered),
        coverage_percentage |-> SatisfactionPercentage(Len(covered)),
        verification_method |->
          [r \in Reqs |-> IF r \in pattern_tested THEN "pattern_matching"
                          ELSE IF holistic[r].covered THEN "holistic_coverage" ELSE "none"] ]

TestLoadFailure ==
  [ success |-> FALSE, requirements_covered |-> <<>>, requirements_missing |-> ReqOrder,
    requirements_found |-> 0, coverage_percentage |-> 0 ]

-----------------------------------------------------------------------------
(* Static analysis: ImplementationAnalyzer (R1..R19).                        *)
(* An implementation text is described by its methods; a method is <<>> when *)
(* the analyzer's method pattern finds none and <<body>> otherwise, a body   *)
(* being the set of statements it holds. A regular expression of the         *)
(* analyzer is the set of catalogued statements it matches.                  *)

AllRequirements ==
  { "R1", "R2", "R3", "R4", "R5", "R6", "R7", "R8", "R9", "R10",
    "R11", "R12", "R13", "R14", "R15", "R16", "R17", "R18", "R19" }

ConstructorStatements == { "speedSet = null;", "speedLimit = null;", "speedSet = 0;" }

SetSpeedSetStatements ==
  { "if (speedSet <= 0)", "throw new IncorrectSpeedSetException();",
    "this.speedSet = speedSet;",
    "if (speedSet > speedLimit)", "throw new SpeedSetAboveSpeedLimitException();" }

SetSpeedLimitStatements ==
  { "if (speedLimit <= 0)", "throw new IncorrectSpeedLimitException();",
    "this.speedLimit = speedLimit;",
    "if (speedSet != null)", "throw new CannotSetSpeedLimitException();" }

DisableStatements == { "speedSet = null;", "speedLimit = null;" }

NextCommandStatements ==
  { "if (speedSet == null) return Response.IDLE;",
    "if (speed > speedSet) return Response.REDUCE;",
    "if (speed < speedSet) return Response.INCREASE;",
    "if (speed == speedSet) return Response.KEEP;",
    "if (speed > speedLimit) return Response.REDUCE;",
    "if (speed < roadMinSpeed) return Response.INCREASE;" }

\* 'throw' in method_body, 'if' in method_body
HasThrow(body) ==
  body \cap { "throw new IncorrectSpeedSetException();",
              "throw new SpeedSetAboveSpeedLimitException();",
              "throw new IncorrectSpeedLimitException();",
              "throw new CannotSetSpeedLimitException();" } # {}

HasIf(body) ==
  body \cap { "if (speedSet <= 0)", "if (speedSet > speedLimit)",
              "if (speedLimit <= 0)", "if (speedSet != null)" } # {}

\* the words and operators of a nextCommand statement after .lower()
Tokens(statement) ==
  CASE statement = "if (speedSet == null) return Response.IDLE;" ->
         {"speedset", "null", "idle", "=="}
    [] statement = "if (speed > speedSet) return Response.REDUCE;" ->
         {"speedset", "reduce", ">"}
    [] statement = "if (speed < speedSet) return Response.INCREASE;" ->
         {"speedset", "increase", "<"}
    [] statement = "if (speed == speedSet) return Response.KEEP;" ->
         {"speedset", "keep", "=="}
    [] statement = "if (speed > speedLimit) return Response.REDUCE;" ->
         {"speedlimit", "reduce", ">"}
    [] statement = "if (speed < roadMinSpeed) return Response.INCREASE;" ->
         {"roadminspeed", "increase", "<"}
    [] OTHER -> {}

\* token in method_body
InBody(token, body) == \E statement \in body : token \in Tokens(statement)

\* the field declarations of every text considered: "private Integer speedSet;" and
\* "private Integer speedLimit;", never "= null" in the declaration
DeclaredInteger(field) == field \in {"speedSet", "speedLimit"}

CheckR1R2Initialization(text) ==
  IF text.constructor = <<>> THEN {}
  ELSE LET constructor_body == text.constructor[1]
       IN  (IF \/ "speedSet = null;" \in constructor_body
               \/ (DeclaredInteger("speedSet") /\ "speedSet = 0;" \notin constructor_body)
            THEN {"R1"} ELSE {})
           \cup
           (IF \/ "speedLimit = null;" \in constructor_body
               \/ DeclaredInteger("speedLimit")
            THEN {"R2"} ELSE {})

CheckR3R4SetSpeedSet(text) ==
  IF text.setSpeedSet = <<>> THEN {}
  ELSE LET method_body == text.setSpeedSet[1]
       IN  (IF /\ "if (speedSet <= 0)" \in method_body
               /\ "throw new IncorrectSpeedSetException();" \in method_body
            THEN {"R4"} ELSE {})
           \cup
           (IF /\ "this.speedSet = speedSet;" \in method_body
               /\ (~HasThrow(method_body) \/ HasIf(method_body))
            THEN {"R3"} ELSE {})

\* the R6 search made whether or not the comparison was found
CheckR5R6Unnested(text) ==
  IF text.setSpeedSet = <<>> THEN {}
  ELSE LET method_body == text.setSpeedSet[1]
       IN  (IF "if (speedSet > speedLimit)" \in method_body THEN {"R5"} ELSE {})
           \cup
           (IF "throw new SpeedSetAboveSpeedLimitException();" \in method_body
            THEN {"R6"} ELSE {})

CheckR5R6SpeedSetVsSpeedLimit(text) ==
  IF text.setSpeedSet = <<>> THEN {}
  ELSE LET method_body == text.setSpeedSet[1]
       IN  IF "if (speedSet > speedLimit)" \in method_body
           THEN {"R5"} \cup
                (IF "throw new SpeedSetAboveSpeedLimitException();" \in method_body
                 THEN {"R6"} ELSE {})
           ELSE {}

CheckR7R8SetSpeedLimit(text) ==
  IF text.setSpeedLimit = <<>> THEN {}
  ELSE LET method_body == text.setSpeedLimit[1]
       IN  (IF /\ "if (speedLimit <= 0)" \in method_body
               /\ "throw new IncorrectSpeedLimitException();" \in method_body
            THEN {"R8"} ELSE {})
           \cup
           (IF /\ "this.speedLimit = speedLimit;" \in method_body
               /\ (~HasThrow(method_body) \/ HasIf(method_body))
            THEN {"R7"} ELSE {})

CheckR9CannotSetSpeedLimit(text) ==
  IF text.setSpeedLimit = <<>> THEN {}
  ELSE LET method_body == text.setSpeedLimit[1]
       IN  IF /\ "if (speedSet != null)" \in method_body
              /\ "throw new CannotSetSpeedLimitException();" \in method_body
           THEN {"R9"} ELSE {}

CheckR10R11Disable(text) ==
  IF text.disable = <<>> THEN {}
  ELSE LET method_body == text.disable[1]
       IN  (IF "speedSet = null;" \in method_body THEN {"R10"} ELSE {})
           \cup
           (IF "speedLimit = null;" \notin method_body THEN {"R11"} ELSE {})

CheckR12R19NextCommand(text) ==
  IF text.nextCommand = <<>> THEN {}
  ELSE LET method_body == text.nextCommand[1]
       IN  (IF /\ InBody("speedset", method_body)
               /\ InBody("null", method_body)
               /\ InBody("idle", method_body) THEN {"R12"} ELSE {})
           \cup
           (IF InBody("reduce", method_body) /\ InBody(">", method_body)
            THEN {"R14"} ELSE {})
           \cup
           (IF InBody("increase", method_body) /\ InBody("<", method_body)
            THEN {"R16"} ELSE {})
           \cup
           (IF InBody("keep", method_body) /\ InBody("==", method_body)
            THEN {"R19"} ELSE {})
           \cup
           (IF InBody("speedlimit", method_body) /\ InBody("reduce", method_body)
            THEN {"R17"} ELSE {})

\* ImplementationAnalyzer.analyze once the file is loaded; the two lists are the sorted
\* listings of the sets, the percentage is in hundredths
AnalyzeImplementation(text) ==
  LET requirements_satisfied ==
        CheckR1R2Initialization(text) \cup CheckR3R4SetSpeedSet(text)
          \cup CheckR5R6SpeedSetVsSpeedLimit(text) \cup CheckR7R8SetSpeedLimit(text)
          \cup CheckR9CannotSetSpeedLimit(text) \cup CheckR10R11Disable(text)
          \cup CheckR12R19NextCommand(text)
  IN  [ success |-> TRUE,
        requirements_satisfied |-> requirements_satisfied,
        requirements_missing |-> AllRequirements \ requirements_satisfied,
        total_requirements |-> Cardinality(AllRequirements),
        requirements_found |-> Cardinality(requirements_satisfied),
        satisfaction_percentage |->
          RoundDiv(Cardinality(requirements_satisfied) * 10000, Cardinality(AllRequirements)) ]

ImplementationLoadFailure ==
  [ success |-> FALSE, error |-> <<"Failed to load implementation file">> ]

\* a method the pattern does not find, or one with any of the given bodies
Methods(bodies) == { <<>> } \cup { <<body>> : body \in bodies }

\* the implementation texts considered
ImplementationTexts ==
  [ constructor : Methods({ {}, {"speedSet = null;", "speedLimit = null;"}, {"speedSet = 0;"} }),
    setSpeedSet : Methods(SUBSET SetSpeedSetStatements),
    setSpeedLimit : Methods({ SetSpeedLimitStatements }),
    disable : Methods({ {"speedSet = null;"}, DisableStatements }),
    nextCommand : Methods(SUBSET NextCommandStatements) ]

\* the text of an analyzer that has not been pointed at a file yet
NoImplementation ==
  [ constructor |-> <<>>, setSpeedSet |-> <<>>, setSpeedLimit |-> <<>>,
    disable |-> <<>>, nextCommand |-> <<>> ]

-----------------------------------------------------------------------------
(* State machine of one grading run: grade_implementation *)

\* one entry of the run's history: a stage that ended, and how
Stage(name, kind) == [stage |-> name, outcome |-> [kind |-> kind]]

StageWith(name, outcome) == [stage |-> name, outcome |-> outcome]

StageOk(e) == e.outcome.kind \in {"ok", "exit0"}

NotRun == RunFailure(<<"not run">>)

NoAnalysis == [r \in Reqs |-> AnalyzeRequirement(<<>>)]

NoResult == [pending |-> TRUE]

\* the subject's CruiseControl.java (with its sibling *Exception.java files): whether it
\* lives under <student_dir>/es/upm/grise/profundizacion/cruiseControl, and whether it exists
SourceFile(in_package) == [in_package |-> in_package, exists |-> TRUE]

\* the test analysis before analyze() has loaded anything
NoTestAnalysis ==
  [ pc |-> "load", test_file |-> <<>>, impl_file |-> {}, pattern_tested |-> {},
    holistic_results |-> NoHolisticResults, result |-> [pending |-> TRUE] ]

Init ==
  /\ grader \in Graders
  /\ pc = IF grader = "pattern" THEN "load_code" ELSE "setup"
  /\ subject = CorrectSubject
  /\ pattern_results = {}
  /\ es_exists = FALSE
  /\ cleanup_calls = 0
  /\ stages = <<>>
  /\ tc_index = 0
  /\ output = <<>>
  /\ proc = "none"
  /\ stray_left = MaxStray
  /\ test_results = NotRun
  /\ analysis = NoAnalysis
  /\ result = NoResult
  /\ test_analysis = NoTestAnalysis
  /\ log_calls = <<>>
  /\ pending_patterns = <<>>
  /\ config = DefaultConfig
  /\ grade = NoGrade
  /\ cruise_control_file = SourceFile(FALSE)
  /\ impl_content = NoImplementation
  /\ impl_analysis = <<>>

\* cleanup(): rmtree(<student_dir>/es) if it exists; a failure is swallowed
EsAfterCleanup(exists, rmtreeOk) == exists /\ ~rmtreeOk

\* the subject's CruiseControl.java and its sibling exception files after cleanup(): a
\* source that lives under <student_dir>/es goes with the tree
FileAfterCleanup(file, exists, rmtreeOk) ==
  IF file.in_package /\ exists /\ rmtreeOk THEN [file EXCEPT !.exists = FALSE] ELSE file

\* what setup_environment may end with: copying a source that is gone raises
SetupOutcomes(file) ==
  IF file.exists THEN {"ok", "mkdir_failed", "copy_failed"}
  ELSE IF file.in_package THEN {"ok", "mkdir_failed"} ELSE {"mkdir_failed", "copy_failed"}

\* return <result> from grade_implementation
Return(r) == result' = r /\ pc' = "done"

\* PatternBasedGrader.load_code
LoadCode ==
  /\ pc = "load_code"
  /\ \E ok \in (IF cruise_control_file.exists THEN BOOLEAN ELSE {FALSE}) :
       IF ok THEN /\ pc' = "pattern_check"
                  /\ stages' = Append(stages, Stage("load", "ok"))
                  /\ UNCHANGED result
       ELSE /\ stages' = Append(stages, Stage("load", "unreadable"))
            /\ Return(ErrorResult(grader, <<"Could not load code">>))
  /\ UNCHANGED <<grader, subject, pattern_results, es_exists, cleanup_calls, tc_index, output,
                 proc, stray_left, test_results, analysis>>
  /\ UNCHANGED <<test_analysis, log_calls, pending_patterns, config, grade, cruise_control_file,
                 impl_content, impl_analysis>>

\* pattern_results[req] = checker(code_content, patterns) for R1..R6
PatternCheck ==
  /\ pc = "pattern_check"
  /\ stages' = Append(stages, Stage("pattern_check", "ok"))
  /\ \E m \in PatternOutcomes : pattern_results' = m
  /\ pc' = "setup"
  /\ UNCHANGED <<grader, subject, es_exists, cleanup_calls, tc_index, output, proc, stray_left,
                 test_results, analysis, result>>
  /\ UNCHANGED <<test_analysis, log_calls, pending_patterns, config, grade, cruise_control_file,
                 impl_content, impl_analysis>>

\* a checker raises (the patterns file loaded as None): except Exception -> cleanup, error
PatternCheckRaises ==
  /\ pc = "pattern_check"
  /\ stages' = stages \o <<Stage("pattern_check", "raised"), Stage("cleanup", "ok")>>
  /\ \E rmtreeOk \in BOOLEAN :
       /\ es_exists' = EsAfterCleanup(es_exists, rmtreeOk)
       /\ cruise_control_file' = FileAfterCleanup(cruise_control_file, es_exists, rmtreeOk)
  /\ cleanup_calls' = cleanup_calls + 1
  /\ Return(ErrorResult(grader, <<"Grading error: ", "'NoneType' object has no attribute 'get'">>))
  /\ UNCHANGED <<grader, subject, pattern_results, tc_index, output, proc, stray_left,
                 test_results, analysis>>
  /\ UNCHANGED <<test_analysis, log_calls, pending_patterns, config, grade,
                 impl_content, impl_analysis>>

\* setup_environment, and the early return when it fails
SetupEnvironment ==
  /\ pc = "setup"
  /\ \E outcome \in SetupOutcomes(cruise_control_file) :
       /\ stages' = Append(stages, Stage("setup", outcome))
       /\ es_exists' = (es_exists \/ outcome # "mkdir_failed")
       /\ IF outcome = "ok" THEN pc' = "compile" /\ UNCHANGED result
          ELSE Return(ErrorResult(grader, <<"Setup error: ", outcome>>))
  /\ UNCHANGED <<grader, subject, pattern_results, cleanup_calls, tc_index, output, proc,
                 stray_left, test_results, analysis>>
  /\ UNCHANGED <<test_analysis, log_calls, pending_patterns, config, grade, cruise_control_file,
                 impl_content, impl_analysis>>

\* mutant of CompileCode: a failed build does not end the run
CompileCodeContinues ==
  /\ pc = "compile"
  /\ \E o \in CompileOutcomes :
       /\ pc' = "harness_compile"
       /\ stages' = Append(stages, StageWith("build", o))
  /\ UNCHANGED <<grader, subject, pattern_results, es_exists, cleanup_calls, tc_index, output,
                 proc, stray_left, test_results, analysis, result>>
  /\ UNCHANGED <<test_analysis, log_calls, pending_patterns, config, grade, cruise_control_file,
                 impl_content, impl_analysis>>

\* compile_code, and on failure cleanup() and the early return
CompileCode ==
  /\ pc = "compile"
  /\ \E o \in CompileOutcomes, rmtreeOk \in BOOLEAN :
       /\ o.kind = "exit0" => cruise_control_file.exists
       /\ IF o.kind = "exit0"
          THEN /\ pc' = "harness_compile"
               /\ stages' = Append(stages, StageWith("build", o))
               /\ UNCHANGED <<es_exists, cleanup_calls, result, cruise_control_file>>
          ELSE /\ stages' = stages \o <<StageWith("build", o), Stage("cleanup", "ok")>>
               /\ es_exists' = EsAfterCleanup(es_exists, rmtreeOk)
               /\ cruise_control_file' = FileAfterCleanup(cruise_control_file, es_exists, rmtreeOk)
               /\ cleanup_calls' = cleanup_calls + 1
               /\ Return(ErrorResult(grader, <<"Compilation failed: ">> \o CompileMessage(grader, o)))
  /\ UNCHANGED <<grader, subject, pattern_results, tc_index, output, proc, stray_left,
                 test_results, analysis>>
  /\ UNCHANGED <<test_analysis, log_calls, pending_patterns, config, grade,
                 impl_content, impl_analysis>>

\* run_tests: write the harness, compile it, start the java process on some subject
CompileHarness ==
  /\ pc = "harness_compile"
  /\ \E o \in CompileOutcomes :
       /\ stages' = Append(stages, StageWith("harness_build", o))
       /\ IF o.kind = "exit0"
          THEN /\ \E s \in Subjects : subject' = s
               /\ proc' = "running"
               /\ pc' = "harness"
               /\ UNCHANGED test_results
          ELSE /\ test_results' = RunFailure(HarnessBuildError(grader, o))
               /\ pc' = "after_run"
               /\ UNCHANGED <<subject, proc>>
  /\ UNCHANGED <<grader, pattern_results, es_exists, cleanup_calls, tc_index, output, stray_left,
                 analysis, result>>
  /\ UNCHANGED <<test_analysis, log_calls, pending_patterns, config, grade, cruise_control_file,
                 impl_content, impl_analysis>>

\* System.out.println("TESTING_START")
HarnessStart ==
  /\ pc = "harness" /\ proc = "running" /\ tc_index = 0
  /\ output' = Append(output, <<"TESTING_START">>)
  /\ tc_index' = 1
  /\ UNCHANGED <<grader, pc, subject, pattern_results, es_exists, cleanup_calls, stages, proc,
                 stray_left, test_results, analysis, result>>
  /\ UNCHANGED <<test_analysis, log_calls, pending_patterns, config, grade, cruise_control_file,
                 impl_content, impl_analysis>>

\* whether the try block of block i of grader g's harness ends with a throw for subject s
BlockThrows(g, i, s) ==
  RunTry(s, IF g = "rigorous" THEN TestMethodCalls(GenerateTestCases[i])
            ELSE IF g = "pattern" THEN PatternHarness[i].calls
            ELSE FixedHarness[i].calls).thrown # NoThrow

\* mutant of RunTestCase: a throw is not caught, main ends and the process exits
RunTestCasePropagates ==
  /\ pc = "harness" /\ proc = "running"
  /\ tc_index \in 1..HarnessLen(grader)
  /\ IF BlockThrows(grader, tc_index, subject)
     THEN /\ proc' = "exited"
          /\ pc' = "parse"
          /\ stages' = Append(stages, Stage("execute", "ok"))
          /\ UNCHANGED <<output, tc_index>>
     ELSE /\ output' = output \o BlockOutput(grader, tc_index, subject)
          /\ tc_index' = tc_index + 1
          /\ UNCHANGED <<pc, proc, stages>>
  /\ UNCHANGED <<grader, subject, pattern_results, es_exists, cleanup_calls,
                 stray_left, test_results, analysis, result>>
  /\ UNCHANGED <<test_analysis, log_calls, pending_patterns, config, grade, cruise_control_file,
                 impl_content, impl_analysis>>

\* one generated try/catch block runs against the subject
RunTestCase ==
  /\ pc = "harness" /\ proc = "running"
  /\ tc_index \in 1..HarnessLen(grader)
  /\ output' = output \o BlockOutput(grader, tc_index, subject)
  /\ tc_index' = tc_index + 1
  /\ UNCHANGED <<grader, pc, subject, pattern_results, es_exists, cleanup_calls, stages, proc,
                 stray_left, test_results, analysis, result>>
  /\ UNCHANGED <<test_analysis, log_calls, pending_patterns, config, grade, cruise_control_file,
                 impl_content, impl_analysis>>

\* System.out.println("TESTING_END")
HarnessEnd ==
  /\ pc = "harness" /\ proc = "running"
  /\ tc_index = HarnessLen(grader) + 1
  /\ output' = Append(output, <<"TESTING_END">>)
  /\ tc_index' = tc_index + 1
  /\ UNCHANGED <<grader, pc, subject, pattern_results, es_exists, cleanup_calls, stages, proc,
                 stray_left, test_results, analysis, result>>
  /\ UNCHANGED <<test_analysis, log_calls, pending_patterns, config, grade, cruise_control_file,
                 impl_content, impl_analysis>>

\* subject code still running after main returned (a shutdown hook, a thread) prints a line
\* the PASS lines already on stdout, any of which the subject may print once more
EchoLines(lines) == {lines[i] : i \in {k \in 1..Len(lines) : StartsWithTag(lines[k], "PASS")}}

SubjectPrintsStray ==
  /\ pc = "harness" /\ proc = "running"
  /\ tc_index = HarnessLen(grader) + 2
  /\ stray_left > 0
  /\ \E l \in StrayLines \cup EchoLines(output) : output' = Append(output, l)
  /\ stray_left' = stray_left - 1
  /\ UNCHANGED <<grader, pc, subject, pattern_results, es_exists, cleanup_calls, stages,
                 tc_index, proc, test_results, analysis, result>>
  /\ UNCHANGED <<test_analysis, log_calls, pending_patterns, config, grade, cruise_control_file,
                 impl_content, impl_analysis>>

\* the java process ends after main returned
ProcessExit ==
  /\ pc = "harness" /\ proc = "running"
  /\ tc_index = HarnessLen(grader) + 2
  /\ proc' = "exited"
  /\ pc' = "parse"
  /\ stages' = Append(stages, Stage("execute", "ok"))
  /\ UNCHANGED <<grader, subject, pattern_results, es_exists, cleanup_calls, tc_index,
                 output, stray_left, test_results, analysis, result>>
  /\ UNCHANGED <<test_analysis, log_calls, pending_patterns, config, grade, cruise_control_file,
                 impl_content, impl_analysis>>

\* the java process dies part-way (System.exit in the subject, a JVM crash): the
\* return code is not looked at, stdout so far is captured
HarnessAbort ==
  /\ pc = "harness" /\ proc = "running"
  /\ tc_index \in 0..(HarnessLen(grader) + 1)
  /\ proc' = "aborted"
  /\ pc' = "parse"
  /\ stages' = Append(stages, Stage("execute", "ok"))
  /\ UNCHANGED <<grader, subject, pattern_results, es_exists, cleanup_calls, tc_index,
                 output, stray_left, test_results, analysis, result>>
  /\ UNCHANGED <<test_analysis, log_calls, pending_patterns, config, grade, cruise_control_file,
                 impl_content, impl_analysis>>

\* subprocess.TimeoutExpired from the run: nothing is captured
HarnessTimeout ==
  /\ pc = "harness" /\ proc = "running"
  /\ proc' = "timeout"
  /\ output' = <<>>
  /\ tc_index' = 0
  /\ test_results' = RunFailure(RunTimeoutError(grader))
  /\ pc' = "after_run"
  /\ stages' = Append(stages, Stage("execute", "timeout"))
  /\ UNCHANGED <<grader, subject, pattern_results, es_exists, cleanup_calls, stray_left,
                 analysis, result>>
  /\ UNCHANGED <<test_analysis, log_calls, pending_patterns, config, grade, cruise_control_file,
                 impl_content, impl_analysis>>

\* the parsing loop at the end of run_tests
ParseResults ==
  /\ pc = "parse"
  /\ stages' = Append(stages, Stage("parse", "ok"))
  /\ test_results' = ParseOutput(grader, output)
  /\ pc' = "after_run"
  /\ UNCHANGED <<grader, subject, pattern_results, es_exists, cleanup_calls, tc_index, output,
                 proc, stray_left, analysis, result>>
  /\ UNCHANGED <<test_analysis, log_calls, pending_patterns, config, grade, cruise_control_file,
                 impl_content, impl_analysis>>

\* back in grade_implementation: cleanup(), then the error return or the reconciliation
FinishGrading ==
  /\ pc = "after_run"
  /\ \E rmtreeOk \in BOOLEAN :
       /\ es_exists' = EsAfterCleanup(es_exists, rmtreeOk)
       /\ cruise_control_file' = FileAfterCleanup(cruise_control_file, es_exists, rmtreeOk)
  /\ cleanup_calls' = cleanup_calls + 1
  /\ IF test_results.success
     THEN /\ stages' = stages \o <<Stage("cleanup", "ok"), Stage("reconcile", "ok")>>
          /\ analysis' = IF grader = "rigorous" THEN AnalyzeResults(test_results) ELSE analysis
          /\ Return(SuccessResult(grader, test_results))
          /\ IF grader = "pattern"
             THEN /\ log_calls' = log_calls \o LogCalls(test_results.passed, pattern_results)
                  /\ \E fileOk \in BOOLEAN :
                       pending_patterns' =
                         LogAll(LogCalls(test_results.passed, pattern_results), pending_patterns, fileOk)
             ELSE UNCHANGED <<log_calls, pending_patterns>>
     ELSE /\ stages' = Append(stages, Stage("cleanup", "ok"))
          /\ UNCHANGED <<analysis, log_calls, pending_patterns>>
          /\ Return(ErrorResult(grader, test_results.error))
  /\ UNCHANGED <<grader, subject, pattern_results, tc_index, output, proc, stray_left,
                 test_results>>
  /\ UNCHANGED <<test_analysis, config, grade,
                 impl_content, impl_analysis>>

Next ==
  \/ LoadCode
  \/ PatternCheck
  \/ PatternCheckRaises
  \/ SetupEnvironment
  \/ CompileCode
  \/ CompileHarness
  \/ HarnessStart
  \/ RunTestCase
  \/ HarnessEnd
  \/ SubjectPrintsStray
  \/ ProcessExit
  \/ HarnessAbort
  \/ HarnessTimeout
  \/ ParseResults
  \/ FinishGrading

Spec == Init /\ [][Next]_vars

-----------------------------------------------------------------------------
(* State machine of one test analysis: PatternBasedTestAnalyzer.analyze *)

graderVars == <<grader, pc, subject, pattern_results, es_exists, cleanup_calls,
                stages, tc_index, output, proc, stray_left, test_results, analysis, result,
                log_calls, pending_patterns, config, grade, cruise_control_file,
                 impl_content, impl_analysis>>

TestAnalysisInit ==
  /\ Init
  /\ grader = "rigorous"

\* analyze: load_test_file succeeded
TestLoadFile ==
  /\ test_analysis.pc = "load"
  /\ \E f \in TestFiles :
       test_analysis' = [test_analysis EXCEPT !.pc = "patterns", !.test_file = f]
  /\ UNCHANGED graderVars

\* analyze: load_test_file failed
TestLoadFileFails ==
  /\ test_analysis.pc = "load"
  /\ test_analysis' = [test_analysis EXCEPT !.pc = "done", !.result = TestLoadFailure]
  /\ UNCHANGED graderVars

\* analyze, phase 1
TestPatternPhase ==
  /\ test_analysis.pc = "patterns"
  /\ test_analysis' = [test_analysis EXCEPT !.pc = "holistic",
                         !.pattern_tested = AnalyzeWithPatterns(test_analysis.test_file)]
  /\ UNCHANGED graderVars

\* analyze, phase 2 with the implementation file found next to the test file
TestHolisticPhase ==
  /\ test_analysis.pc = "holistic"
  /\ \E impl \in ImplFiles :
       test_analysis' = [test_analysis EXCEPT !.pc = "combine", !.impl_file = impl,
                           !.holistic_results = GenerateCoverageReport(test_analysis.test_file, impl)]
  /\ UNCHANGED graderVars

\* analyze, phase 2 without an implementation file (or with an exception): {}
TestHolisticUnavailable ==
  /\ test_analysis.pc = "holistic"
  /\ test_analysis' = [test_analysis EXCEPT !.pc = "combine"]
  /\ UNCHANGED graderVars

\* analyze: _combine_results and return
TestCombinePhase ==
  /\ test_analysis.pc = "combine"
  /\ test_analysis' = [test_analysis EXCEPT !.pc = "done",
                         !.result = CombineResults(test_analysis.pattern_tested,
                                                   test_analysis.holistic_results)]
  /\ UNCHANGED graderVars

TestAnalysisNext ==
  \/ TestLoadFile
  \/ TestLoadFileFails
  \/ TestPatternPhase
  \/ TestHolisticPhase
  \/ TestHolisticUnavailable
  \/ TestCombinePhase

TestAnalysisSpec == TestAnalysisInit /\ [][TestAnalysisNext]_vars

-----------------------------------------------------------------------------
(* State machine of one reconciliation: the parsing loop of run_tests and the
   rest of grade_implementation, on a captured stdout whose lines come in any order *)

\* the lines a captured stdout is made of
ReconcileLines ==
  { <<"PASS", "R3", "R3_VALID_0001">>,
    <<"FAIL", "R3", "R3_VALID_0050", "EXCEPTION", "RuntimeException">>,
    <<"PASS", "R4", "R4_INVALID_0000">>,
    <<"FAIL", "R4", "R4_INVALID_0001", "NO_EXCEPTION">>,
    <<"PASS", "R3,R5", "PROP_SEQUENTIAL_01">>,
    <<"TESTING_END">> }

ReconcileOutputs == UNION {[1..n -> ReconcileLines] : n \in 0..MaxLines}

\* lines with the neighbours at i and i + 1 exchanged
SwapAt(lines, i) ==
  [k \in 1..Len(lines) |-> IF k = i THEN lines[i + 1] ELSE IF k = i + 1 THEN lines[i] ELSE lines[k]]

\* the java process has exited and stdout is captured
ReconcileInit ==
  /\ grader \in Graders
  /\ pc = "parse"
  /\ subject = CorrectSubject
  /\ pattern_results = {}
  /\ es_exists = TRUE
  /\ cleanup_calls = 0
  /\ stages = <<>>
  /\ tc_index = HarnessLen(grader) + 2
  /\ output \in ReconcileOutputs
  /\ proc = "exited"
  /\ stray_left = MaxStray
  /\ test_results = NotRun
  /\ analysis = NoAnalysis
  /\ result = NoResult
  /\ test_analysis = NoTestAnalysis
  /\ log_calls = <<>>
  /\ pending_patterns = <<>>
  /\ config = DefaultConfig
  /\ grade = NoGrade
  /\ cruise_control_file = SourceFile(FALSE)
  /\ impl_content = NoImplementation
  /\ impl_analysis = <<>>

\* the same lines reach stdout in another order
ShuffleLines ==
  /\ pc = "parse"
  /\ Len(stages) < MaxShuffles
  /\ \E i \in 1..(Len(output) - 1) :
       /\ output[i] # output[i + 1]
       /\ output' = SwapAt(output, i)
  /\ stages' = Append(stages, Stage("shuffle", "ok"))
  /\ UNCHANGED <<grader, pc, subject, pattern_results, es_exists, cleanup_calls, tc_index,
                 proc, stray_left, test_results, analysis, result>>
  /\ UNCHANGED <<test_analysis, log_calls, pending_patterns, config, grade, cruise_control_file,
                 impl_content, impl_analysis>>

ReconcileNext ==
  \/ ShuffleLines
  \/ ParseResults
  \/ FinishGrading

ReconcileSpec == ReconcileInit /\ [][ReconcileNext]_vars

-----------------------------------------------------------------------------
(* State machine of one harness process: main of the generated class, from its
   start to the end of the java process.  main runs to its end unless the process
   is killed, so its steps are weakly fair. *)

\* subprocess.run(['java', ...]) has started the compiled harness on some subject
HarnessInit ==
  /\ grader \in Graders
  /\ pc = "harness"
  /\ subject \in Subjects
  /\ pattern_results = {}
  /\ es_exists = TRUE
  /\ cleanup_calls = 0
  /\ stages = <<>>
  /\ tc_index = 0
  /\ output = <<>>
  /\ proc = "running"
  /\ stray_left = MaxStray
  /\ test_results = NotRun
  /\ analysis = NoAnalysis
  /\ result = NoResult
  /\ test_analysis = NoTestAnalysis
  /\ log_calls = <<>>
  /\ pending_patterns = <<>>
  /\ config = DefaultConfig
  /\ grade = NoGrade
  /\ cruise_control_file = SourceFile(FALSE)
  /\ impl_content = NoImplementation
  /\ impl_analysis = <<>>

HarnessNext ==
  \/ HarnessStart
  \/ RunTestCase
  \/ HarnessEnd
  \/ ProcessExit
  \/ HarnessAbort
  \/ HarnessTimeout

HarnessSpec ==
  /\ HarnessInit /\ [][HarnessNext]_vars
  /\ WF_vars(HarnessStart) /\ WF_vars(RunTestCase) /\ WF_vars(HarnessEnd) /\ WF_vars(ProcessExit)

-----------------------------------------------------------------------------
(* State machine of GradingSystem: one analysis is graded under one configuration *)

\* the analysis dicts a grader's grade_implementation returns
GradedAnalyses ==
  { SuccessResult("pattern", [success |-> TRUE, passed |-> InOrder(sat), failed |-> <<>>]) :
      sat \in SUBSET Reqs }
    \cup { ErrorResult("pattern", <<"Could not load code">>) }

\* GradingSystem.__init__: the configuration is config.yaml or, without it, the default
GradingInit ==
  /\ grader = "pattern"
  /\ pc = "load_code"
  /\ subject = CorrectSubject
  /\ pattern_results = {}
  /\ es_exists = FALSE
  /\ cleanup_calls = 0
  /\ stages = <<>>
  /\ tc_index = 0
  /\ output = <<>>
  /\ proc = "none"
  /\ stray_left = MaxStray
  /\ test_results = NotRun
  /\ analysis = NoAnalysis
  /\ result = NoResult
  /\ test_analysis = NoTestAnalysis
  /\ log_calls = <<>>
  /\ pending_patterns = <<>>
  /\ config \in Configs
  /\ grade = NoGrade
  /\ cruise_control_file = SourceFile(FALSE)
  /\ impl_content = NoImplementation
  /\ impl_analysis = <<>>

\* implementation_analysis = grader.grade_implementation(...)
ReceiveAnalysis ==
  /\ pc # "done" /\ grade = NoGrade
  /\ \E an \in GradedAnalyses : Return(an)
  /\ UNCHANGED <<grader, subject, pattern_results, es_exists, cleanup_calls, stages, tc_index,
                 output, proc, stray_left, test_results, analysis>>
  /\ UNCHANGED <<test_analysis, log_calls, pending_patterns, config, grade, cruise_control_file,
                 impl_content, impl_analysis>>

\* result['implementation_grade'] = self.calculate_grade(implementation_analysis)
GradeAnalysis ==
  /\ pc = "done" /\ grade = NoGrade
  /\ grade' = <<CalculateGrade(config, result)>>
  /\ UNCHANGED <<grader, pc, subject, pattern_results, es_exists, cleanup_calls, stages,
                 tc_index, output, proc, stray_left, test_results, analysis, result>>
  /\ UNCHANGED <<test_analysis, log_calls, pending_patterns, config, cruise_control_file,
                 impl_content, impl_analysis>>

GradingNext ==
  \/ ReceiveAnalysis
  \/ GradeAnalysis

GradingSpec == GradingInit /\ [][GradingNext]_vars

-----------------------------------------------------------------------------
(* State machine of DualGradingSystem.grade_student: the pattern-based grader and
   then the rigorous grader run on the same student directory *)

\* the submission as cloned: the source is somewhere under student_dir
DualInit ==
  /\ grader = "pattern"
  /\ pc = "load_code"
  /\ subject = CorrectSubject
  /\ pattern_results = {}
  /\ \E in_package \in BOOLEAN :
       cruise_control_file = SourceFile(in_package) /\ es_exists = in_package
  /\ impl_content = NoImplementation
  /\ impl_analysis = <<>>
  /\ cleanup_calls = 0
  /\ stages = <<>>
  /\ tc_index = 0
  /\ output = <<>>
  /\ proc = "none"
  /\ stray_left = 0
  /\ test_results = NotRun
  /\ analysis = NoAnalysis
  /\ result = NoResult
  /\ test_analysis = NoTestAnalysis
  /\ log_calls = <<>>
  /\ pending_patterns = <<>>
  /\ config = DefaultConfig
  /\ grade = NoGrade

\* rigorous_grader = RigorousImplementationGrader(student_dir); grade_implementation(impl_file):
\* a new grader object on the directory the first one left behind; the state kept from here
\* on is that of the second grading
RunRigorousGrader ==
  /\ pc = "done" /\ grader = "pattern"
  /\ grader' = "rigorous"
  /\ pc' = "setup"
  /\ subject' = CorrectSubject
  /\ stages' = <<>>
  /\ tc_index' = 0
  /\ output' = <<>>
  /\ proc' = "none"
  /\ pattern_results' = {}
  /\ cleanup_calls' = 0
  /\ test_results' = NotRun
  /\ analysis' = NoAnalysis
  /\ result' = NoResult
  /\ log_calls' = <<>>
  /\ pending_patterns' = <<>>
  /\ UNCHANGED <<es_exists, stray_left, test_analysis, config, grade, cruise_control_file,
                 impl_content, impl_analysis>>

\* the two grade_implementation calls, for subjects that print nothing of their own
DualNext ==
  \/ LoadCode
  \/ PatternCheck
  \/ PatternCheckRaises
  \/ SetupEnvironment
  \/ CompileCode
  \/ CompileHarness
  \/ HarnessStart
  \/ RunTestCase
  \/ HarnessEnd
  \/ ProcessExit
  \/ HarnessAbort
  \/ HarnessTimeout
  \/ ParseResults
  \/ FinishGrading
  \/ RunRigorousGrader

DualSpec == DualInit /\ [][DualNext]_vars

-----------------------------------------------------------------------------
(* State machine of ImplementationAnalyzer: one file is analyzed *)

AnalyzerInit ==
  /\ grader = "pattern"
  /\ pc = "load_code"
  /\ subject = CorrectSubject
  /\ pattern_results = {}
  /\ es_exists = FALSE
  /\ cleanup_calls = 0
  /\ stages = <<>>
  /\ tc_index = 0
  /\ output = <<>>
  /\ proc = "none"
  /\ stray_left = MaxStray
  /\ test_results = NotRun
  /\ analysis = NoAnalysis
  /\ result = NoResult
  /\ test_analysis = NoTestAnalysis
  /\ log_calls = <<>>
  /\ pending_patterns = <<>>
  /\ config = DefaultConfig
  /\ grade = NoGrade
  /\ cruise_control_file = SourceFile(FALSE)
  /\ impl_content \in ImplementationTexts
  /\ impl_analysis = <<>>

\* analyze(): load_implementation_file, the seven checks, the result dict
Analyze ==
  /\ impl_analysis = <<>>
  /\ \E loaded \in BOOLEAN :
       impl_analysis' = IF loaded THEN <<AnalyzeImplementation(impl_content)>>
                        ELSE <<ImplementationLoadFailure>>
  /\ UNCHANGED <<grader, pc, subject, pattern_results, es_exists, cleanup_calls, stages,
                 tc_index, output, proc, stray_left, test_results, analysis, result>>
  /\ UNCHANGED <<test_analysis, log_calls, pending_patterns, config, grade,
                 cruise_control_file, impl_content>>

AnalyzerNext == Analyze

AnalyzerSpec == AnalyzerInit /\ [][AnalyzerNext]_vars

-----------------------------------------------------------------------------
(* Properties *)

Done == pc = "done"

\* a run of the harness that ended by itself and in which the subject printed nothing
CleanRun == proc = "exited" /\ stray_left = MaxStray

Satisfied(r) == r \in Range(result.requirements_satisfied)

Missing(r) == r \in Range(result.requirements_missing)

\* the subject of Scenario B: setSpeedSet rejects only values < 0, otherwise correct
OffByOneSubject == [CorrectSubject EXCEPT !.lowCheck = "lt0"]

\* C1: for the off-by-one subject (rejects < 0, accepts 0) the rigorous grader's zero
\* boundary case R4_INVALID_0000 prints FAIL, R4's pass rate is below 80 and R4 is
\* reported missing, not satisfied.
C1_OffByOneMissing ==
  (Done /\ grader = "rigorous" /\ CleanRun /\ subject = OffByOneSubject) =>
    /\ <<"FAIL", "R4", "R4_INVALID_0000", "NO_EXCEPTION">> \in Range(output)
    /\ analysis["R4"].rate_num < 80 * analysis["R4"].rate_den
    /\ Missing("R4")
    /\ ~Satisfied("R4")

C3_OneLinePerTestCase ==
  (pc = "harness" /\ grader \in {"rigorous", "pattern"} /\ tc_index \in 1..(HarnessLen(grader) + 1)) =>
    /\ Len(output) = tc_index
    /\ \A i \in 2..Len(output) : output[i][1] \in {"PASS", "FAIL"}

\* C4: in the rigorous grader the grade is 10.0 when all of R1..R6 are satisfied and 0
\* when none is; the six weights sum to the ceiling; the exactly-correct subject gets 10.0.
C4_RoundTripGrade ==
  (Done /\ grader = "rigorous" /\ result.success) =>
    /\ (\A r \in Reqs : analysis[r].satisfied) => result.grade = 1000
    /\ (\A r \in Reqs : ~analysis[r].satisfied) => result.grade = 0
    /\ (CleanRun /\ subject = CorrectSubject) => result.grade = 1000
    /\ SeqSum([i \in 1..Len(ReqOrder) |-> Weights[ReqOrder[i]]]) = 1000

\* C4 witness: the exactly-correct subject graded with every requirement satisfied
C4_Witness ==
  /\ Done /\ grader = "rigorous" /\ result.success /\ CleanRun /\ subject = CorrectSubject
  /\ \A r \in Reqs : analysis[r].satisfied
  /\ result.grade = 1000

\* C4, second case reached: a graded run in which no requirement is satisfied
C4_WitnessNone ==
  /\ Done /\ grader = "rigorous" /\ result.success
  /\ \A r \in Reqs : ~analysis[r].satisfied
  /\ result.grade = 0

\* the javac runs of this grading run that exited non-zero
FailedCompiles ==
  {i \in 1..Len(stages) : stages[i].stage \in {"build", "harness_build"}
                           /\ stages[i].outcome.kind = "nonzero"}

\* C5: when javac exits non-zero (subject or harness) the result has success False, a
\* non-empty error containing the compiler's stderr, nothing satisfied, R1..R6 missing
\* and, in the rigorous grader, grade 0.
C5_BuildErrorNoCredit ==
  (Done /\ FailedCompiles # {}) =>
    /\ result.success = FALSE
    /\ result.error # <<>> /\ result.error[1] # ""
    /\ \A i \in FailedCompiles : stages[i].outcome.stderr \in Range(result.error)
    /\ result.requirements_satisfied = <<>>
    /\ result.requirements_missing = <<"R1", "R2", "R3", "R4", "R5", "R6">>
    /\ grader = "rigorous" => result.grade = 0

\* C5 witness: a returned run whose subject build exited non-zero with a diagnostic
C5_Witness ==
  /\ Done
  /\ \E i \in FailedCompiles : stages[i].stage = "build" /\ stages[i].outcome.stderr # ""
  /\ ~result.success

\* execution could not run: the subject build, the harness build or the run failed
ExecutionFailed ==
  \E i \in 1..Len(stages) :
     stages[i].stage \in {"build", "harness_build", "execute"} /\ ~StageOk(stages[i])

C7_CleanupGuaranteed ==
  (Done /\ \E i \in 1..Len(stages) : stages[i].stage = "setup") =>
    /\ cleanup_calls >= 1
    /\ ~es_exists

PipelineStages == {"setup", "build", "harness_build", "execute", "parse"}

InsideWindow(lines) ==
  LET starts == {i \in 1..Len(lines) : lines[i] = <<"TESTING_START">>}
      first  == CHOOSE i \in starts : \A k \in starts : i <= k
      ends   == {j \in 1..Len(lines) : j > first /\ lines[j] = <<"TESTING_END">>}
      last   == CHOOSE j \in ends : \A k \in ends : j <= k
  IN  IF starts = {} THEN <<>>
      ELSE IF ends = {} THEN <<>>
      ELSE SubSeq(lines, first + 1, last - 1)

\* how many PASS lines the parse result counts for requirement r
PassCount(g, tr, r) ==
  IF g = "rigorous" THEN CountPass(tr.results_by_requirement[r])
  ELSE Cardinality({i \in 1..Len(tr.passed) : tr.passed[i] = r})

\* C9: lines outside the TESTING_START..TESTING_END window change no requirement's
\* verdict and no pass count.
C9_OutsideWindowIgnored ==
  (Done /\ proc = "exited" /\ result.success) =>
    LET inside == ParseOutput(grader, InsideWindow(output))
    IN  \A r \in Reqs :
          /\ Satisfied(r) <=> r \in Range(SatisfiedRequirements(grader, inside))
          /\ PassCount(grader, test_results, r) = PassCount(grader, inside, r)

MissingMarker(lines) ==
  <<"TESTING_START">> \notin Range(lines) \/ <<"TESTING_END">> \notin Range(lines)

\* C10: captured output without TESTING_START or TESTING_END makes run_tests report a
\* failure, and nothing is satisfied from it.
C10_MissingMarkerIsRunFailure ==
  (pc \in {"after_run", "done"} /\ proc \in {"exited", "aborted"} /\ MissingMarker(output)) =>
    /\ test_results.success = FALSE
    /\ Done => result.requirements_satisfied = <<>>

\* the lines with every PASS line that repeats an earlier identical line removed
RECURSIVE DropRepeatedPass(_, _)
DropRepeatedPass(lines, seen) ==
  IF lines = <<>> THEN <<>>
  ELSE LET l == Head(lines)
       IN  IF StartsWithTag(l, "PASS") /\ l \in seen
           THEN DropRepeatedPass(Tail(lines), seen)
           ELSE <<l>> \o DropRepeatedPass(Tail(lines), seen \cup {l})

\* C11: repeating an existing PASS line changes nothing: the verdicts, requirements_found,
\* the grade and (rigorous grader) the pass counts and rates are those of the output with
\* every repeated PASS line counted once.
C11_DuplicatePassCountedOnce ==
  (Done /\ result.success /\ proc = "exited") =>
    LET once == ParseOutput(grader, DropRepeatedPass(output, {}))
        sat  == SatisfiedRequirements(grader, once)
    IN  /\ result.requirements_satisfied = sat
        /\ result.requirements_found = Len(sat)
        /\ grader = "rigorous" =>
              /\ result.grade = GradeOf(sat)
              /\ \A r \in Reqs :
                    /\ analysis[r].passed_tests = AnalyzeResults(once)[r].passed_tests
                    /\ analysis[r].rate_num * AnalyzeResults(once)[r].rate_den
                         = AnalyzeResults(once)[r].rate_num * analysis[r].rate_den

\* a javac run (subject or harness) of this grading run exceeded its 30 s bound
BuildTimedOut ==
  \E i \in 1..Len(stages) : stages[i].stage \in {"build", "harness_build"}
                             /\ stages[i].outcome.kind = "timeout"

\* the harness run exceeded its 10 s bound
RunTimedOut ==
  \E i \in 1..Len(stages) : stages[i].stage = "execute" /\ stages[i].outcome.kind = "timeout"

\* the tags under which the graders report an unclassified exception
GenericErrorTags == {"Compilation error: ", "Test execution error: "}

\* C12: a timeout is reported under its own failure mode: a build timeout is not reported
\* with the run-timeout error nor under a generic error tag, a run timeout is not reported
\* under a generic error tag, and after any timeout R1..R6 are all missing.
C12_DistinctFailureModes ==
  (Done /\ (BuildTimedOut \/ RunTimedOut)) =>
    /\ result.success = FALSE
    /\ result.requirements_satisfied = <<>>
    /\ result.requirements_missing = ReqOrder
    /\ Range(result.error) \cap GenericErrorTags = {}
    /\ BuildTimedOut => result.error # RunTimeoutError(grader)

\* the generated test cases that expect setSpeedSet to reject its input
RejectCases ==
  {i \in 1..Len(GenerateTestCases) :
     LET tc == GenerateTestCases[i]
     IN  tc.expected_behavior = "exception" /\ ~IdStartsWithR1(tc) /\ ~IdStartsWithR2(tc)}

\* the last call of tc's block threw and left the subject's speedSet as it was before it
StatePreserved(s, tc) ==
  LET calls  == TestMethodCalls(tc)
      before == RunTry(s, SubSeq(calls, 1, Len(calls) - 1))
      after  == RunTry(s, calls)
  IN  /\ before.thrown = NoThrow
      /\ after.thrown # NoThrow
      /\ after.cc.speedSet = before.cc.speedSet

\* C13: a reject-invalid-input case (STATE_TRANS_01 included) prints PASS only if the
\* rejected call left the subject's speedSet at its value before the call.
C13_StatePreservationAsserted ==
  (grader = "rigorous" /\ pc = "harness") =>
    \A i \in RejectCases :
      PassLine(GenerateTestCases[i]) \in Range(output) => StatePreserved(subject, GenerateTestCases[i])

\* the subject's mutators throw on every input (fields null, constructor fine)
ThrowsOnEveryInput == subject \in ThrowingSubjects

\* the outcome lines of test case tc in the output
LinesOf(tc, tag) ==
  {i \in 1..Len(output) : Len(output[i]) >= 3 /\ output[i][1] = tag /\ output[i][3] = tc.id}

\* C14: Scenario C: for a subject whose mutators throw on every input, whatever the class
\* thrown, R1 and R2 pass, every mutator test case prints FAIL and not PASS, and the grade
\* is the sum of the R1 and R2 weights.
C14_ThrowsOnEveryInput ==
  (Done /\ grader = "rigorous" /\ CleanRun /\ ThrowsOnEveryInput) =>
    /\ Satisfied("R1") /\ Satisfied("R2")
    /\ \A i \in 1..Len(GenerateTestCases) :
         LET tc == GenerateTestCases[i]
         IN  (~IdStartsWithR1(tc) /\ ~IdStartsWithR2(tc)) =>
               (LinesOf(tc, "FAIL") # {} /\ LinesOf(tc, "PASS") = {})
    /\ result.grade = Weights["R1"] + Weights["R2"]

\* the subject of Scenario A: fields default to null, mutators neither store nor throw
NoOpSubject ==
  SubjectShape(Null, Null, NoThrow, NoThrow, "nocheck", "IncorrectSpeedSetException",
               "nocheck", "SpeedSetAboveSpeedLimitException", "never")

\* C15: Scenario A: for the no-op subject the run is graded, no PASS line exists for any
\* of R3..R6, R1 and R2 each have a PASS line and are the satisfied requirements, and the
\* rigorous grade is the sum of the R1 and R2 weights.
C15_NoOpSubject ==
  (Done /\ grader \in {"rigorous", "exec"} /\ CleanRun /\ subject = NoOpSubject) =>
    /\ result.success
    /\ \A i \in 1..Len(output) :
         (Len(output[i]) >= 2 /\ output[i][1] = "PASS") => output[i][2] \in {"R1", "R2"}
    /\ \A r \in {"R1", "R2"} :
         \E i \in 1..Len(output) : Len(output[i]) >= 2 /\ output[i][1] = "PASS" /\ output[i][2] = r
    /\ result.requirements_satisfied = <<"R1", "R2">>
    /\ result.requirements_missing = <<"R3", "R4", "R5", "R6">>
    /\ grader = "rigorous" => result.grade = Weights["R1"] + Weights["R2"]

\* C15 witness: the no-op subject graded by the rigorous grader with only R1 and R2
C15_Witness ==
  /\ Done /\ grader = "rigorous" /\ CleanRun /\ subject = NoOpSubject
  /\ result.success /\ result.grade = 334
  /\ <<"FAIL", "R4", "R4_INVALID_0000", "NO_EXCEPTION">> \in Range(output)

\* the test files of Scenario D: one method calling setSpeedLimit(100); setSpeedSet(150)
\* that expects the exceeds-limit exception and asserts nothing else
ScenarioDFile(file) ==
  /\ Len(file) = 1
  /\ file[1].limits = <<100>> /\ file[1].sets = <<150>>
  /\ file[1].assertThrows = "SpeedSetAboveSpeedLimitException"
  /\ file[1].annotation = "plain"
  /\ ~file[1].checksValue /\ file[1].initPatterns = {}

\* C16: Scenario D: the analysis of such a test file reports R6 as covered and does not
\* report R5 as covered, whatever implementation file it is paired with.
C16_ExceedsLimitIsNotR5 ==
  (test_analysis.pc = "done" /\ ScenarioDFile(test_analysis.test_file)) =>
    /\ "R6" \in Range(test_analysis.result.requirements_covered)
    /\ "R5" \notin Range(test_analysis.result.requirements_covered)

\* the generated R4 cases that call setSpeedSet(0) on a fresh subject / with a negative value
ZeroCases ==
  {i \in 1..Len(GenerateTestCases) :
     LET tc == GenerateTestCases[i]
     IN  tc.requirement = "R4" /\ tc.inputSpeedSet = Box(0) /\ tc.preSpeedSet = Null}

NegativeCases ==
  {i \in 1..Len(GenerateTestCases) :
     LET tc == GenerateTestCases[i]
     IN  tc.requirement = "R4" /\ tc.inputSpeedSet # Null /\ tc.inputSpeedSet[1] < 0}

\* the PASS and FAIL lines of test case tc in the output
OutcomeLines(tc) == LinesOf(tc, "PASS") \cup LinesOf(tc, "FAIL")

\* C17: the generated sequence has a dedicated R4 case with input 0 whose id differs from
\* the id of every negative-value R4 case, and a finished harness run reports it on a line
\* of its own.
C17_ZeroBoundaryCase ==
  /\ ZeroCases # {}
  /\ \A z \in ZeroCases, n \in NegativeCases : GenerateTestCases[z].id # GenerateTestCases[n].id
  /\ \A m, n \in NegativeCases : m # n => GenerateTestCases[m].id # GenerateTestCases[n].id
  /\ (Done /\ grader = "rigorous" /\ CleanRun) =>
        \A z \in ZeroCases : Cardinality(OutcomeLines(GenerateTestCases[z])) = 1

\* C17 witness: a finished run that reported the zero case and the case for -1 separately
C17_Witness ==
  /\ Done /\ grader = "rigorous" /\ CleanRun
  /\ \E i, j \in 1..Len(output) :
       /\ i # j
       /\ Len(output[i]) >= 3 /\ output[i][3] = "R4_INVALID_0000"
       /\ Len(output[j]) >= 3 /\ output[j][3] = "R4_INVALID_0001"

\* the generated cases of one requirement that set a limit and then a speed
LimitCases(req) ==
  {i \in 1..Len(GenerateTestCases) :
     LET tc == GenerateTestCases[i]
     IN  tc.requirement = req /\ tc.preSpeedLimit # Null /\ tc.inputSpeedSet # Null}

\* C18: some R6 case is the pair (limit, limit + 1) and every R6 case has speedSet above
\* speedLimit; every R5 case has speedSet <= speedLimit and one has them equal; a finished
\* run of the exactly-correct subject passes all of them.
C18_LimitBoundaryPairs ==
  /\ \E i \in LimitCases("R6") :
       GenerateTestCases[i].inputSpeedSet[1] = GenerateTestCases[i].preSpeedLimit[1] + 1
  /\ \A i \in LimitCases("R6") :
       GenerateTestCases[i].inputSpeedSet[1] > GenerateTestCases[i].preSpeedLimit[1]
  /\ \A i \in 1..Len(GenerateTestCases) :
       GenerateTestCases[i].requirement \in {"R5", "R6"} => i \in LimitCases("R5") \cup LimitCases("R6")
  /\ \A i \in LimitCases("R5") :
       GenerateTestCases[i].inputSpeedSet[1] <= GenerateTestCases[i].preSpeedLimit[1]
  /\ \E i \in LimitCases("R5") :
       GenerateTestCases[i].inputSpeedSet[1] = GenerateTestCases[i].preSpeedLimit[1]
  /\ (Done /\ grader = "rigorous" /\ CleanRun /\ subject = CorrectSubject) =>
        \A i \in LimitCases("R5") \cup LimitCases("R6") :
          LinesOf(GenerateTestCases[i], "PASS") # {} /\ LinesOf(GenerateTestCases[i], "FAIL") = {}

\* C18 witness: a subject that rejects speedSet == speedLimit fails the exact-boundary R5
\* case and passes the (limit, limit + 1) R6 case
C18_Witness ==
  /\ Done /\ grader = "rigorous" /\ CleanRun
  /\ subject = [CorrectSubject EXCEPT !.limitCheck = "ge"]
  /\ \E i \in 1..Len(output) : Len(output[i]) >= 3 /\ output[i][1] = "FAIL"
                                 /\ output[i][3] = "R5_EQUAL_LIMIT_0100"
  /\ <<"PASS", "R6", "R6_EXCEED_LIMIT_0101">> \in Range(output)

\* the generated test cases of requirement req
CasesOf(req) == {i \in 1..Len(GenerateTestCases) : GenerateTestCases[i].requirement = req}

\* the output lines with the given tag attributed to requirement req
ReqLines(req, tag) ==
  {i \in 1..Len(output) : Len(output[i]) >= 2 /\ output[i][1] = tag /\ output[i][2] = req}

\* the subject never assigns the field that requirement req tracks
FieldStaysNull(req) ==
  IF req = "R1" THEN subject.initSet = Null ELSE subject.initLimit = Null

\* C19: R1 and R2 have one generated case each, and every constructed subject whose
\* tracked field stays null gets exactly one PASS line and no FAIL line for the
\* requirement, in the generated harness and in the fixed one.
C19_InitOnePassNoFail ==
  /\ \A r \in {"R1", "R2"} : Cardinality(CasesOf(r)) = 1
  /\ (Done /\ grader \in {"rigorous", "exec"} /\ CleanRun /\ subject.ctorThrows = NoThrow) =>
       \A r \in {"R1", "R2"} :
         FieldStaysNull(r) =>
           Cardinality(ReqLines(r, "PASS")) = 1 /\ ReqLines(r, "FAIL") = {}

\* C19 witness: a subject that initialises speedSet but not speedLimit: R2 has its single
\* PASS line and R1 has none
C19_Witness ==
  /\ Done /\ grader = "rigorous" /\ CleanRun /\ subject.ctorThrows = NoThrow
  /\ subject.initSet # Null /\ subject.initLimit = Null
  /\ Cardinality(ReqLines("R2", "PASS")) = 1 /\ ReqLines("R2", "FAIL") = {}
  /\ ReqLines("R1", "PASS") = {}

\* the requirements named in the log_unmatched_pattern calls of the run
LoggedRequirements == {log_calls[i].requirement : i \in 1..Len(log_calls)}

\* C20: after a successful run of the pattern-based grader a requirement is satisfied
\* exactly when a PASS line for it was parsed, whatever the static pattern check said;
\* log_unmatched_pattern is called once for each satisfied requirement whose pattern
\* check did not match and for nothing else, and what it records is a
\* NEEDS_MANUAL_REVIEW entry; no other run calls it.
C20_LenientModeLogsAnomaly ==
  /\ (Done /\ grader = "pattern" /\ result.success) =>
       /\ \A r \in Reqs :
            /\ r \in Range(result.requirements_satisfied) <=>
                 \E i \in 1..Len(output) : StartsWithTag(output[i], "PASS") /\ output[i][2] = r
            /\ r \in LoggedRequirements <=>
                 (r \in Range(result.requirements_satisfied) /\ r \notin pattern_results)
            /\ Cardinality({i \in 1..Len(log_calls) : log_calls[i].requirement = r}) <= 1
       /\ \A i \in 1..Len(log_calls) :
            log_calls[i].execution_passed /\ ~log_calls[i].pattern_matched
       /\ \A i \in 1..Len(pending_patterns) :
            /\ pending_patterns[i].status = "NEEDS_MANUAL_REVIEW"
            /\ pending_patterns[i].requirement \in LoggedRequirements
       /\ Len(pending_patterns) \in {0, Len(log_calls)}
  /\ ~(Done /\ grader = "pattern" /\ result.success) =>
       log_calls = <<>> /\ pending_patterns = <<>>

\* C20 witness: a successful pattern-based run in which one satisfied requirement had no
\* pattern match and was logged, and another had a pattern match and was not
C20_Witness ==
  /\ Done /\ grader = "pattern" /\ result.success
  /\ \E r, q \in Range(result.requirements_satisfied) :
       /\ r \notin pattern_results /\ r \in LoggedRequirements
       /\ q \in pattern_results /\ q \notin LoggedRequirements
  /\ \E r \in Reqs : r \notin Range(result.requirements_satisfied) /\ r \notin pattern_results
  /\ Len(pending_patterns) = Len(log_calls) /\ pending_patterns # <<>>

\* what a run reports for lines: the satisfied and the missing requirements and the grade
VerdictOfResult(g, r) ==
  [ satisfied |-> Range(r.requirements_satisfied),
    missing   |-> Range(r.requirements_missing),
    grade     |-> IF g = "rigorous" THEN r.grade ELSE DualCalculateGrade(r.requirements_satisfied) ]

VerdictOf(g, lines) == VerdictOfResult(g, SuccessResult(g, ParseOutput(g, lines)))

\* C21: exchanging two neighbouring lines of the captured output never changes the
\* satisfied set, the missing set or the grade, for each of the three graders; as the
\* outputs range over every sequence of the lines, every permutation gives one verdict.
C21_OrderIndependent ==
  /\ \A i \in 1..(Len(output) - 1) :
       VerdictOf(grader, SwapAt(output, i)) = VerdictOf(grader, output)
  /\ (Done /\ result.success) => VerdictOfResult(grader, result) = VerdictOf(grader, output)

\* C21 witness: a reordered output with a FAIL line ahead of a PASS line was graded and
\* a requirement is satisfied
C21_Witness ==
  /\ Done /\ result.success
  /\ Stage("shuffle", "ok") \in Range(stages)
  /\ \E i, j \in 1..Len(output) :
       i < j /\ StartsWithTag(output[i], "FAIL") /\ StartsWithTag(output[j], "PASS")
  /\ result.requirements_satisfied # <<>>

\* the ids of the generated test cases
GeneratedIds == {GenerateTestCases[i].id : i \in 1..Len(GenerateTestCases)}

\* C22: every PASS or FAIL line of a generated test case is found in the parsed results
\* of one of R1..R6, the line of PROP_SEQUENTIAL_01 included.
C22_EveryOutcomeCounted ==
  (grader = "rigorous" /\ Done /\ result.success) =>
    \A i \in 1..Len(output) :
      ( /\ StartsWithTag(output[i], "PASS") \/ StartsWithTag(output[i], "FAIL")
        /\ Len(output[i]) >= 3 /\ output[i][3] \in GeneratedIds ) =>
        \E r \in Reqs :
          \E k \in 1..Len(test_results.results_by_requirement[r]) :
            test_results.results_by_requirement[r][k].test_id = output[i][3]

\* what blocks 1..n of grader g's harness print for subject s, in emission order
RECURSIVE BlocksOutput(_, _, _)
BlocksOutput(g, s, n) ==
  IF n = 0 THEN <<>> ELSE BlocksOutput(g, s, n - 1) \o BlockOutput(g, n, s)

\* some block that has already run ended its try block with a throw
SomeCaseThrew == \E i \in 1..HarnessLen(grader) : i < tc_index /\ BlockThrows(grader, i, subject)

\* stdout is exactly what the blocks run so far print, in emission order, between the markers
InEmissionOrder ==
  (proc \in {"running", "exited"} /\ tc_index > 0) =>
    output = << <<"TESTING_START">> >>
               \o BlocksOutput(grader, subject, IF tc_index > HarnessLen(grader)
                                                THEN HarnessLen(grader) ELSE tc_index - 1)
               \o (IF tc_index = HarnessLen(grader) + 2 THEN << <<"TESTING_END">> >> ELSE <<>>)

\* the java process was ended from outside main: System.exit, a JVM crash, the timeout
ProcessKilled == proc \in {"aborted", "timeout"}

\* C23: whatever a block throws, the blocks after it still run in emission order on a
\* fresh subject each, a process that ends by itself has printed TESTING_END, and once
\* a block has thrown TESTING_END is eventually printed unless the process is killed.
C23_CrashIsolation ==
  /\ [](InEmissionOrder /\ (proc = "exited" => <<"TESTING_END">> \in Range(output)))
  /\ ((proc = "running" /\ SomeCaseThrew) ~> (<<"TESTING_END">> \in Range(output) \/ ProcessKilled))

\* C23 witness: a subject whose constructor throws in every block, run to the end by the
\* rigorous harness: one line per test case between the markers
C23_Witness ==
  /\ proc = "exited" /\ grader = "rigorous"
  /\ subject \in CtorThrowingSubjects
  /\ SomeCaseThrew
  /\ Len(output) = Len(GenerateTestCases) + 2
  /\ output[Len(output)] = <<"TESTING_END">>

\* a stage of the run failed: setup, a compiler process, the harness process, the filesystem
CollaboratorFailed ==
  \/ \E i \in 1..Len(stages) : ~StageOk(stages[i])
  \/ proc \in {"aborted", "timeout"}

\* the structured failure result: no success, an error text, nothing satisfied
StructuredFailure(r) ==
  /\ r.success = FALSE
  /\ r.error # <<>> /\ r.error # <<"">>
  /\ r.requirements_satisfied = <<>>
  /\ Range(r.requirements_missing) = Reqs

\* C24: a finished run in which setup, a compiler process, the harness process or the
\* filesystem failed has returned the structured failure result.
C24_NoFailureEscapes ==
  (Done /\ CollaboratorFailed) => StructuredFailure(result)

\* min(a, b)
Min(a, b) == IF a < b THEN a ELSE b

\* C25: a computed grade is 0 for a failed analysis and otherwise the sum of the
\* configured weights of the satisfied requirements, plus the bonus only when all the
\* analysis's requirements are satisfied, capped at max_grade; so an analysis with all of
\* its requirements satisfied is graded max_grade under the default configuration.
C25_GradeIsCappedWeightSum ==
  grade # NoGrade =>
    LET sat  == result.requirements_satisfied
        sum  == WeightSum(config.requirement_weights, sat)
        full == Len(sat) = result.total_requirements
    IN  /\ grade[1] = IF ~result.success THEN 0
                      ELSE Min(sum + (IF full THEN config.bonus ELSE 0), config.max_grade)
        /\ grade[1] <= config.max_grade
        /\ (result.success /\ full /\ config = DefaultConfig) => grade[1] = config.max_grade

\* how many of the test cases generated for requirement r have a PASS line in the output
GeneratedPassed(r) == Cardinality({i \in CasesOf(r) : LinesOf(GenerateTestCases[i], "PASS") # {}})

\* C26: in a finished rigorous run a requirement is reported satisfied only if at least
\* 80% of the test cases generated for it passed.
C26_RateOverGeneratedCases ==
  (Done /\ grader = "rigorous" /\ CleanRun /\ result.success) =>
    \A r \in Reqs :
      Satisfied(r) => GeneratedPassed(r) * 100 >= SatisfactionThreshold * Cardinality(CasesOf(r))

\* a list without repeated elements
DuplicateFree(l) == Cardinality(Range(l)) = Len(l)

\* C27: in every returned result the satisfied and the missing requirements are disjoint
\* duplicate-free lists whose union is R1..R6, requirements_found is the number of
\* satisfied requirements and at most 6, and satisfaction_percentage is at most 100.
C27_ResultShape ==
  Done =>
    /\ Range(result.requirements_satisfied) \cap Range(result.requirements_missing) = {}
    /\ DuplicateFree(result.requirements_satisfied)
    /\ DuplicateFree(result.requirements_missing)
    /\ Range(result.requirements_satisfied) \cup Range(result.requirements_missing) = Reqs
    /\ result.requirements_found = Len(result.requirements_satisfied)
    /\ result.requirements_found <= Len(ReqOrder)
    /\ result.satisfaction_percentage <= 100 * 100

\* C28: in a finished run of the fixed-harness grader R4 is reported satisfied only if
\* the zero probe printed PASS:R4 and no probe printed a FAIL:R4 line.
C28_BothR4ProbesNeeded ==
  (Done /\ grader = "exec" /\ CleanRun /\ result.success) =>
    ("R4" \in Range(result.requirements_satisfied) =>
       ReqLines("R4", "PASS") # {} /\ ReqLines("R4", "FAIL") = {})

\* C29: whatever graders have run on the student directory, the subject's original
\* CruiseControl.java and exception files still exist, wherever they were located.
C29_SourcesSurviveGrading == cruise_control_file.exists

\* C30: in every analysis the static ImplementationAnalyzer returns, R6 is satisfied only
\* if R5 is, R13, R15 and R18 are missing, at most 16 requirements are found and the
\* satisfaction percentage is below 100.
C30_StaticAnalyzerCeiling ==
  \A i \in 1..Len(impl_analysis) :
    LET r == impl_analysis[i]
    IN  r.success =>
          /\ ("R6" \in r.requirements_satisfied => "R5" \in r.requirements_satisfied)
          /\ {"R13", "R15", "R18"} \subseteq r.requirements_missing
          /\ r.requirements_found <= 16
          /\ r.satisfaction_percentage < 10000

\* a text that earns every requirement the analyzer can grant, R6 included
C30_Witness ==
  /\ impl_analysis # <<>>
  /\ impl_analysis[1].success
  /\ "R6" \in impl_analysis[1].requirements_satisfied
  /\ impl_analysis[1].requirements_found = 16
  /\ impl_analysis[1].satisfaction_percentage = 8421

====
